---- MODULE Spec2Model ----
(***************************************************************************)
(* Order ledger (orderService.js over a MySQL/InnoDB store) and the        *)
(* authorization gate (authMiddleware.js / authService.js) of              *)
(* orsa-admin-backend.                                                     *)
(*                                                                         *)
(* Ledger: every Lambda invocation is a process p \in Procs that runs one  *)
(* service call at a time; every `await` of the JavaScript source is one   *)
(* step, so invocations interleave at exactly the points where the event   *)
(* loop / the database can interleave them.  The store is modelled by the  *)
(* committed tables (orders, items) plus, per open transaction, the rows   *)
(* it has written and the locks it holds: a transaction's writes become    *)
(* visible to others only at COMMIT, and are discarded at ROLLBACK.        *)
(* Money is counted in whole units (cents), so x and + are exact.          *)
(***************************************************************************)
EXTENDS Integers, Sequences, FiniteSets, TLC

\* ---------------------------------------------------------------- bounds
NumProcs == 2
MaxOps == 2
MaxCreates == 1
MaxSeqOps == 4
MaxDefects == 2
MaxDay == 2
MaxGroups == 2
MaxHeaderLen == 4
NumInstances == 2
MaxCalls == 4
\* the limit and the window of isRateLimited, scaled down from 100 requests
\* and 15 minutes (in ticks of the clock)
maxRequests == 2
windowMs == 2
TicksPerDay == 2
MaxOrders == 2
MaxItems == 3
MaxCreateItems == 2
MaxQuantity == 2
MaxPrice == 3
ExplicitTotal == 5

Procs == 1..NumProcs
OrderIds == 1..MaxOrders
ItemIds == 1..MaxItems

\* JavaScript `undefined` for an optional number (prices and ids are >= 0)
undefined == 0 - 1
\* JavaScript truthiness of an optional number: undefined and 0 are falsy
Truthy(x) == x # undefined /\ x # 0
\* JavaScript a || b on optional numbers
OrElse(a, b) == IF Truthy(a) THEN a ELSE b

\* the products table is read-only here: product 1 exists, product 2 does not
Products == {1}
Quantities == 1..MaxQuantity
Prices == {0, MaxPrice}
ItemInputs ==
  {[product_id |-> 1, quantity |-> q, unit_price |-> u] : q \in Quantities, u \in Prices}
  \cup {[product_id |-> 2, quantity |-> 1, unit_price |-> MaxPrice]}

RECURSIVE SeqsUpTo(_, _)
SeqsUpTo(S, n) ==
  IF n = 0 THEN {<< >>}
  ELSE LET shorter == SeqsUpTo(S, n - 1)
       IN  shorter \cup {Append(s, x) : s \in {t \in shorter : Len(t) = n - 1}, x \in S}

OrderInputs ==
  {[items |-> its, total_price |-> t] :
     its \in SeqsUpTo(ItemInputs, MaxCreateItems), t \in {undefined, 0, ExplicitTotal}}

EditableStatuses == {"pending", "confirmed"}
Statuses == {"pending", "confirmed", "processing", "shipped", "delivered", "cancelled"}

\* ------------------------------------------------------------------ rows
NoOrder == [exists |-> FALSE, order_status |-> "none", total_price |-> 0]
NoItem == [exists |-> FALSE, order_id |-> 0, product_id |-> 0,
           quantity |-> 0, unit_price |-> 0, total_price |-> 0]
NoWrites == [x \in {} |-> NoOrder]
NoItemWrites == [x \in {} |-> NoItem]
NoTx == [open |-> FALSE, ow |-> NoWrites, iw |-> NoItemWrites, sl |-> {}, gap |-> {}]
NoLoc == [orderId |-> 0, totalPrice |-> 0, k |-> 0, itemIds |-> {},
          order_id |-> 0, total_price |-> 0, ret |-> undefined,
          order |-> NoOrder, seen |-> {},
          fault |-> FALSE, committed |-> FALSE, called |-> FALSE]
NoItemInput == [product_id |-> 0, quantity |-> 0, unit_price |-> 0]
NoArg == [id |-> 0, items |-> << >>, total_price |-> undefined,
          order_status |-> "undefined", item |-> NoItemInput,
          from |-> undefined, to |-> undefined]

VARIABLES
  pool,          \* what orderService.js imported as `pool`: "pool" | "undefined"
  orders,        \* committed rows of table orders, by id
  items,         \* committed rows of table order_items, by id
  nextOrderId,   \* AUTO_INCREMENT of orders
  nextItemId,    \* AUTO_INCREMENT of order_items
  tx,            \* per process: the open transaction (written rows, locks)
  conn,          \* per process: "none" | "held" | "released"
  op,            \* per process: the service function running, or "idle"
  pc,            \* per process: the statement it is about to run
  arg,           \* per process: the call's arguments
  loc,           \* per process: the call's local variables
  err,           \* per process: the error being thrown ("none" if none)
  resp,          \* per process: statusCode of the HTTP response (0: none yet)
  opsStarted,    \* number of calls started so far
  now,           \* the clock of the database and of the functions
  created_at,    \* column created_at of table orders, by id
  payload,       \* the verified claims authenticate builds the user from
  identity,      \* the user object it returned
  authHeader,    \* the Authorization header a token is taken from
  entry,         \* the function that takes it: "extractToken" | "authorizer"
  outcome,       \* what that function did with the header
  user_id,       \* column user_id of table orders, by id ("none": no such order)
  pcall,         \* the request a handler of protectedHandler.js is serving
  lastChange,    \* the last change a protected handler made to an order
  rateLimitStore,\* per process instance: the Map of isRateLimited
  hits,          \* per instance and key: the instants the wrapped handler was invoked
  rl,            \* the request withMiddleware is serving
  sns            \* the call of publishOrderCreated in progress

clockVars == <<now, created_at>>
callVars == <<payload, identity, authHeader, entry, outcome>>
edgeVars == <<user_id, pcall, lastChange, rateLimitStore, hits, rl, sns>>
orderVars == <<pool, orders, items, nextOrderId, nextItemId, tx, conn, op, pc,
               arg, loc, err, resp, opsStarted>>
ledgerVars == <<pool, orders, items, nextOrderId, nextItemId, tx, conn, op, pc,
                arg, loc, err, resp, opsStarted, clockVars, callVars, edgeVars>>

VARIABLES
  env,               \* process.env of the deployment
  request,           \* the event withAuth is handling
  options,           \* the options the route passed to withAuth
  apc,               \* position inside withAuth ("idle": no request)
  mode,              \* "direct" | "fallback": which authenticate(event) is running
  user,              \* the identity authentication produced
  error,             \* the exception on its way to withAuth's catch block
  externalAuthError, \* the error authenticateExternal threw
  vstate,            \* state of the verification of this request
  response,          \* statusCode withAuth resolved with (0: none yet)
  handlerCalls,      \* how often the wrapped handler was invoked
  eventUser,         \* event.user as the handler received it
  verifyCalls,       \* how often verifyToken ran for this request
  verified           \* verifyToken returned the payload of this request's token

authVars == <<env, request, options, apc, mode, user, error, externalAuthError,
              vstate, response, handlerCalls, eventUser, verifyCalls, verified>>

vars == <<ledgerVars, authVars>>

\* dbConnector.js as required by orderService.js line 6: the module that
\* builds the pool at load time exports it; the Secrets-Manager one keeps
\* `pool` module-private, so the destructured import is undefined.
dbConnectorExports == {"pool", "undefined"}

\* ------------------------------------------------- the store (InnoDB rows)
Upd(f, k, v) == [x \in (DOMAIN f) \cup {k} |-> IF x = k THEN v ELSE f[x]]

\* current version of a row as transaction p sees it for a locking access
OrderRow(p, o) == IF o \in DOMAIN tx[p].ow THEN tx[p].ow[o] ELSE orders[o]
ItemRow(p, i) == IF i \in DOMAIN tx[p].iw THEN tx[p].iw[i] ELSE items[i]

Others(p) == Procs \ {p}
\* exclusive row lock on an orders row: nobody else wrote it or share-locks it
CanXLockOrder(p, o) ==
  \A q \in Others(p) : o \notin DOMAIN tx[q].ow /\ o \notin tx[q].sl
\* shared row lock (foreign-key check on the parent): nobody else wrote it
CanSLockOrder(p, o) == \A q \in Others(p) : o \notin DOMAIN tx[q].ow
CanXLockItem(p, i) == \A q \in Others(p) : i \notin DOMAIN tx[q].iw
\* index range order_items(order_id = o): no other transaction holds the gap
\* or has an uncommitted version of an item of that order
CanLockItemsOf(p, o) ==
  \A q \in Others(p) :
    /\ o \notin tx[q].gap
    /\ \A i \in DOMAIN tx[q].iw : tx[q].iw[i].order_id # o /\ items[i].order_id # o
CanInsertItemOf(p, o) == \A q \in Others(p) : o \notin tx[q].gap

\* a statement's writes go to the open transaction, or straight to the
\* committed tables when the connection is in autocommit mode
WriteOrder(p, o, row) ==
  IF tx[p].open
    THEN /\ tx' = [tx EXCEPT ![p].ow = Upd(@, o, row)]
         /\ UNCHANGED orders
    ELSE /\ orders' = [orders EXCEPT ![o] = row]
         /\ UNCHANGED tx

WriteItems(p, rows, sAdd, gAdd) ==
  IF tx[p].open
    THEN /\ tx' = [tx EXCEPT ![p].iw = [i \in (DOMAIN @) \cup (DOMAIN rows) |->
                                          IF i \in DOMAIN rows THEN rows[i] ELSE @[i]],
                             ![p].sl = @ \cup sAdd,
                             ![p].gap = @ \cup gAdd]
         /\ UNCHANGED items
    ELSE /\ items' = [i \in ItemIds |-> IF i \in DOMAIN rows THEN rows[i] ELSE items[i]]
         /\ UNCHANGED tx

\* ------------------------------------------------------------ bookkeeping
\* control state of process p after a step: next statement, locals, error
Ctl(p, l, lc, e) ==
  /\ pc' = [pc EXCEPT ![p] = l]
  /\ loc' = [loc EXCEPT ![p] = lc]
  /\ err' = [err EXCEPT ![p] = e]
SameData == UNCHANGED <<orders, items, tx, nextOrderId, nextItemId>>
SameIds == UNCHANGED <<nextOrderId, nextItemId>>
Quiet == UNCHANGED <<pool, op, arg, opsStarted, conn, resp>>

\* the store (or the network to it) rejects the statement: control enters
\* the catch block of the service function
StoreFails(p) ==
  /\ Ctl(p, "rollback", [loc[p] EXCEPT !.fault = TRUE], "StorageError")
  /\ SameData /\ Quiet

\* an invocation of handler `name` arrives with (valid or invalid) input a
Start(p, name, a, first) ==
  /\ op[p] = "idle"
  /\ opsStarted < MaxOps
  /\ op' = [op EXCEPT ![p] = name]
  /\ arg' = [arg EXCEPT ![p] = a]
  /\ Ctl(p, first, NoLoc, "none")
  /\ opsStarted' = opsStarted + 1
  /\ SameData /\ UNCHANGED <<pool, conn, resp>>

FirstStatement(name) ==
  CASE name = "createOrder" -> "insertOrder"
    [] name = "deleteOrder" -> "deleteItems"
    [] name = "addOrderItem" -> "insertItem"
    [] name = "removeOrderItem" -> "selectItem"
    [] OTHER -> "respond"

\* the statement after pool.getConnection(): getTotalPrice opens no transaction
AfterConnection(name) ==
  IF name = "getTotalPrice" THEN "sumQuery" ELSE "beginTransaction"

\* const connection = await pool.getConnection();   (before the try block)
GetConnection(p) ==
  /\ pc[p] = "getConnection"
  /\ IF pool = "undefined"
       THEN \* TypeError: Cannot read properties of undefined
            /\ Ctl(p, "respond", [loc[p] EXCEPT !.called = TRUE], "TypeError")
            /\ UNCHANGED conn
       ELSE \/ /\ Ctl(p, AfterConnection(op[p]), [loc[p] EXCEPT !.called = TRUE], "none")
               /\ conn' = [conn EXCEPT ![p] = "held"]
            \/ /\ Ctl(p, "respond", [loc[p] EXCEPT !.called = TRUE, !.fault = TRUE],
                      "StorageError")
               /\ UNCHANGED conn
  /\ SameData /\ UNCHANGED <<pool, op, arg, opsStarted, resp>>

\* (mutation) the transaction is never opened: the connection stays in
\* autocommit mode
BeginTransaction_autocommit(p) ==
  /\ pc[p] = "beginTransaction"
  /\ \/ /\ Ctl(p, FirstStatement(op[p]), loc[p], "none")
        /\ SameData /\ Quiet
     \/ StoreFails(p)

\* await connection.beginTransaction();
BeginTransaction(p) ==
  /\ pc[p] = "beginTransaction"
  /\ \/ /\ tx' = [tx EXCEPT ![p] = [NoTx EXCEPT !.open = TRUE]]
        /\ Ctl(p, FirstStatement(op[p]), loc[p], "none")
        /\ UNCHANGED <<orders, items>> /\ SameIds /\ Quiet
     \/ StoreFails(p)

\* -------------------------------------------------------------- createOrder
\* exports.createOrder: the body carries user_id; orderService.createOrder(orderData)
createOrder(p) ==
  \E od \in OrderInputs :
    /\ opsStarted < MaxCreates
    /\ \A q \in Others(p) : op[q] # "createOrder"
    /\ Start(p, "createOrder",
             [NoArg EXCEPT !.items = od.items, !.total_price = od.total_price],
             "getConnection")

\* (mutation) the computed total is never written back
AfterItems_skipUpdate(p, totalPrice) == "commit"

\* where createOrder continues once the item loop is over (no await between)
AfterItems(p, totalPrice) ==
  IF totalPrice > 0 /\ ~Truthy(arg[p].total_price) THEN "updateTotal" ELSE "commit"

\* INSERT INTO orders (...) VALUES (?, ?, ?, ?, ?)
createOrder_insertOrder(p) ==
  /\ op[p] = "createOrder" /\ pc[p] = "insertOrder"
  /\ \/ /\ nextOrderId <= MaxOrders
        /\ WriteOrder(p, nextOrderId,
             [exists |-> TRUE,
              order_status |-> IF arg[p].order_status = "undefined" THEN "pending"
                               ELSE arg[p].order_status,
              total_price |-> OrElse(arg[p].total_price, 0)])
        /\ nextOrderId' = nextOrderId + 1
        /\ Ctl(p, IF Len(arg[p].items) > 0 THEN "insertItem" ELSE AfterItems(p, 0),
               [loc[p] EXCEPT !.orderId = nextOrderId, !.k = 1], "none")
        /\ UNCHANGED <<items, nextItemId>> /\ Quiet
     \/ StoreFails(p)

\* the row an INSERT INTO order_items writes
NewItemRow(o, item, itemTotal) ==
  [exists |-> TRUE, order_id |-> o, product_id |-> item.product_id,
   quantity |-> item.quantity, unit_price |-> item.unit_price, total_price |-> itemTotal]

\* foreign keys of order_items: the parent order and the product must exist
ItemReferencesOk(p, o, item) ==
  /\ o \in OrderIds /\ OrderRow(p, o).exists
  /\ item.product_id \in Products

\* the INSERT waits while another transaction locks the parent or the range
InsertItemReady(p, o) ==
  o \in OrderIds => CanInsertItemOf(p, o) /\ CanSLockOrder(p, o)

\* const itemTotal = item.quantity * item.unit_price;
ItemTotal(item) == item.quantity * item.unit_price

\* for (const item of orderData.items) { ...; await connection.execute(itemQuery, ...) }
createOrder_insertItem(p) ==
  /\ op[p] = "createOrder" /\ pc[p] = "insertItem"
  /\ LET item == arg[p].items[loc[p].k]
         itemTotal == ItemTotal(item)
         totalPrice == loc[p].totalPrice + itemTotal
         o == loc[p].orderId
     IN  \/ /\ InsertItemReady(p, o)
            /\ ItemReferencesOk(p, o, item)
            /\ nextItemId <= MaxItems
            /\ WriteItems(p, nextItemId :> NewItemRow(o, item, itemTotal), {o}, {})
            /\ nextItemId' = nextItemId + 1
            /\ Ctl(p, IF loc[p].k < Len(arg[p].items) THEN "insertItem"
                      ELSE AfterItems(p, totalPrice),
                   [loc[p] EXCEPT !.totalPrice = totalPrice, !.k = @ + 1,
                                  !.itemIds = @ \cup {nextItemId}], "none")
            /\ UNCHANGED <<orders, nextOrderId>> /\ Quiet
         \/ /\ InsertItemReady(p, o)
            /\ ~ItemReferencesOk(p, o, item)
            /\ Ctl(p, "rollback", [loc[p] EXCEPT !.totalPrice = totalPrice],
                   "ER_NO_REFERENCED_ROW_2")
            /\ SameData /\ Quiet
         \/ StoreFails(p)

\* UPDATE orders SET total_price = ? WHERE id = ?
createOrder_updateTotal(p) ==
  /\ op[p] = "createOrder" /\ pc[p] = "updateTotal"
  /\ LET o == loc[p].orderId
     IN  \/ /\ CanXLockOrder(p, o)
            /\ WriteOrder(p, o, [OrderRow(p, o) EXCEPT !.total_price = loc[p].totalPrice])
            /\ Ctl(p, "commit", loc[p], "none")
            /\ UNCHANGED items /\ SameIds /\ Quiet
         \/ StoreFails(p)

\* ------------------------------------------------- commit, catch, finally
\* what the service function returns after its commit
ReturnValue(p) ==
  CASE op[p] = "createOrder" -> OrElse(loc[p].totalPrice, arg[p].total_price)
    [] op[p] = "addOrderItem" -> loc[p].totalPrice
    [] OTHER -> undefined

\* await connection.commit();
Commit(p) ==
  /\ pc[p] = "commit"
  /\ \/ /\ orders' = [o \in OrderIds |-> OrderRow(p, o)]
        /\ items' = [i \in ItemIds |-> ItemRow(p, i)]
        /\ tx' = [tx EXCEPT ![p] = NoTx]
        /\ Ctl(p, "release", [loc[p] EXCEPT !.committed = TRUE, !.ret = ReturnValue(p)],
               "none")
        /\ SameIds /\ Quiet
     \/ StoreFails(p)

\* (mutation) a rollback that rejects leaves the function before its finally
Rollback_noFinally(p) ==
  /\ pc[p] = "rollback"
  /\ tx' = [tx EXCEPT ![p] = NoTx]
  /\ \/ Ctl(p, "release", loc[p], err[p])
     \/ Ctl(p, "respond", [loc[p] EXCEPT !.fault = TRUE], "RollbackError")
  /\ UNCHANGED <<orders, items>> /\ SameIds /\ Quiet

\* catch (error) { await connection.rollback(); throw error; }
\* A rollback that rejects throws its own error in place of the caught one;
\* the store drops the transaction of a broken connection all the same.
Rollback(p) ==
  /\ pc[p] = "rollback"
  /\ tx' = [tx EXCEPT ![p] = NoTx]
  /\ \/ Ctl(p, "release", loc[p], err[p])
     \/ Ctl(p, "release", [loc[p] EXCEPT !.fault = TRUE], "RollbackError")
  /\ UNCHANGED <<orders, items>> /\ SameIds /\ Quiet

\* finally { connection.release(); }
Release(p) ==
  /\ pc[p] = "release"
  /\ conn' = [conn EXCEPT ![p] = "released"]
  /\ Ctl(p, "respond", loc[p], err[p])
  /\ SameData /\ UNCHANGED <<pool, op, arg, opsStarted, resp>>

\* handleError(error) of handler.js: the status code by error.code
handleError(e) ==
  CASE e = "ER_DUP_ENTRY" -> 409
    [] e = "ER_NO_REFERENCED_ROW" -> 400
    [] OTHER -> 500

\* the status of the handler's createResponse(...) after the service returned
SuccessStatus(name) ==
  IF name \in {"createOrder", "addOrderItem"} THEN 201 ELSE 200

\* return createResponse(2xx, ...)  or  catch (error) { return handleError(error); }
Respond(p) ==
  /\ pc[p] = "respond"
  /\ resp' = [resp EXCEPT ![p] = IF err[p] = "none" THEN SuccessStatus(op[p])
                                 ELSE handleError(err[p])]
  /\ Ctl(p, "done", loc[p], err[p])
  /\ SameData /\ UNCHANGED <<pool, op, arg, opsStarted, conn>>

\* the invocation is over; the process is free for the next request
Return(p) ==
  /\ pc[p] = "done" /\ op[p] # "idle"
  /\ op' = [op EXCEPT ![p] = "idle"]
  /\ arg' = [arg EXCEPT ![p] = NoArg]
  /\ Ctl(p, "done", NoLoc, "none")
  /\ conn' = [conn EXCEPT ![p] = "none"]
  /\ resp' = [resp EXCEPT ![p] = 0]
  /\ SameData /\ UNCHANGED <<pool, opsStarted>>

\* --------------------------------------------------- getOrderById (reads)
\* executeQuery: a statement on a pooled connection in autocommit mode; a
\* plain SELECT reads the committed rows and takes no lock.
\* const orders = await executeQuery(orderQuery, [id]);
getOrderById_order(p) ==
  /\ pc[p] = "getOrderById"
  /\ \/ /\ orders[arg[p].id].exists
        /\ Ctl(p, "getOrderItems", [loc[p] EXCEPT !.order = orders[arg[p].id]], "none")
        /\ UNCHANGED resp
     \/ \* if (!order) return createResponse(404, { error: "Order not found" });
        /\ ~orders[arg[p].id].exists
        /\ Ctl(p, "done", loc[p], "none")
        /\ resp' = [resp EXCEPT ![p] = 404]
     \/ /\ Ctl(p, "respond", [loc[p] EXCEPT !.fault = TRUE], "StorageError")
        /\ UNCHANGED resp
  /\ SameData /\ UNCHANGED <<pool, op, arg, opsStarted, conn>>

\* where each handler goes once getOrderById returned the order
AfterGetOrder(name) ==
  CASE name \in {"addOrderItem", "deleteOrder"} -> "getConnection"
    [] name = "updateOrder" -> "updateQuery"
    [] OTHER -> "respond"

\* const items = await executeQuery(itemsQuery, [id]); order.items = items;
getOrderById_items(p) ==
  /\ pc[p] = "getOrderItems"
  /\ \/ Ctl(p, AfterGetOrder(op[p]),
            [loc[p] EXCEPT !.seen = {i \in ItemIds : items[i].exists
                                                     /\ items[i].order_id = arg[p].id}],
            "none")
     \/ Ctl(p, "respond", [loc[p] EXCEPT !.fault = TRUE], "StorageError")
  /\ SameData /\ Quiet

\* exports.getOrders with a path id: getOrderById, then 200 with the order
getOrders(p) ==
  \E id \in OrderIds : Start(p, "getOrders", [NoArg EXCEPT !.id = id], "getOrderById")

\* -------------------------------------------------------------- deleteOrder
\* exports.deleteOrder: getOrderById (404 if absent), then orderService.deleteOrder
deleteOrder(p) ==
  \E id \in OrderIds : Start(p, "deleteOrder", [NoArg EXCEPT !.id = id], "getOrderById")

\* (mutation) the items of the order are not deleted
deleteOrder_deleteItems_none(p) ==
  /\ op[p] = "deleteOrder" /\ pc[p] = "deleteItems"
  /\ \/ /\ Ctl(p, "deleteOrderRow", loc[p], "none")
        /\ SameData /\ Quiet
     \/ StoreFails(p)

\* DELETE FROM order_items WHERE order_id = ?
deleteOrder_deleteItems(p) ==
  /\ op[p] = "deleteOrder" /\ pc[p] = "deleteItems"
  /\ LET o == arg[p].id
         gone == {i \in ItemIds : ItemRow(p, i).exists /\ ItemRow(p, i).order_id = o}
     IN  \/ /\ CanLockItemsOf(p, o)
            /\ WriteItems(p, [i \in gone |-> NoItem], {}, {o})
            /\ Ctl(p, "deleteOrderRow", loc[p], "none")
            /\ UNCHANGED orders /\ SameIds /\ Quiet
         \/ StoreFails(p)

\* DELETE FROM orders WHERE id = ?
deleteOrder_deleteOrder(p) ==
  /\ op[p] = "deleteOrder" /\ pc[p] = "deleteOrderRow"
  /\ LET o == arg[p].id
     IN  \/ /\ CanXLockOrder(p, o)
            /\ IF OrderRow(p, o).exists THEN WriteOrder(p, o, NoOrder)
               ELSE UNCHANGED <<orders, tx>>
            /\ Ctl(p, "commit", loc[p], "none")
            /\ UNCHANGED items /\ SameIds /\ Quiet
         \/ StoreFails(p)

\* ------------------------------------------------------------- addOrderItem
\* if (!itemData.product_id || !itemData.quantity || !itemData.unit_price)
MissingItemFields(item) ==
  ~Truthy(item.product_id) \/ ~Truthy(item.quantity) \/ ~Truthy(item.unit_price)

\* exports.addOrderItem: 400 on missing fields, getOrderById (404 if absent),
\* then orderService.addOrderItem(orderId, itemData)
addOrderItem(p) ==
  \E id \in OrderIds, item \in ItemInputs :
    /\ Start(p, "addOrderItem", [NoArg EXCEPT !.id = id, !.item = item],
             IF MissingItemFields(item) THEN "respond400" ELSE "getOrderById")

\* return createResponse(400, {...}) of a handler's input validation
Respond400(p) ==
  /\ pc[p] = "respond400"
  /\ resp' = [resp EXCEPT ![p] = 400]
  /\ Ctl(p, "done", loc[p], "none")
  /\ SameData /\ UNCHANGED <<pool, op, arg, opsStarted, conn>>

\* INSERT INTO order_items (...) VALUES (?, ?, ?, ?, ?, ?)
addOrderItem_insertItem(p) ==
  /\ op[p] = "addOrderItem" /\ pc[p] = "insertItem"
  /\ LET item == arg[p].item
         itemTotal == ItemTotal(item)
         o == arg[p].id
     IN  \/ /\ InsertItemReady(p, o)
            /\ ItemReferencesOk(p, o, item)
            /\ nextItemId <= MaxItems
            /\ WriteItems(p, nextItemId :> NewItemRow(o, item, itemTotal), {o}, {})
            /\ nextItemId' = nextItemId + 1
            /\ Ctl(p, "updateTotal",
                   [loc[p] EXCEPT !.totalPrice = itemTotal, !.itemIds = {nextItemId}],
                   "none")
            /\ UNCHANGED <<orders, nextOrderId>> /\ Quiet
         \/ /\ InsertItemReady(p, o)
            /\ ~ItemReferencesOk(p, o, item)
            /\ Ctl(p, "rollback", [loc[p] EXCEPT !.totalPrice = itemTotal],
                   "ER_NO_REFERENCED_ROW_2")
            /\ SameData /\ Quiet
         \/ StoreFails(p)

addOrderItem_updateTotal_overwrite(p) ==
  /\ op[p] = "addOrderItem" /\ pc[p] = "updateTotal"
  /\ LET o == arg[p].id
     IN  \/ /\ CanXLockOrder(p, o)
            /\ IF OrderRow(p, o).exists
                 THEN WriteOrder(p, o, [OrderRow(p, o) EXCEPT
                        !.total_price = loc[p].order.total_price + loc[p].totalPrice])
                 ELSE UNCHANGED <<orders, tx>>
            /\ Ctl(p, "commit", loc[p], "none")
            /\ UNCHANGED items /\ SameIds /\ Quiet
         \/ StoreFails(p)
\* UPDATE orders SET total_price = total_price + ? WHERE id = ?
addOrderItem_updateTotal(p) ==
  /\ op[p] = "addOrderItem" /\ pc[p] = "updateTotal"
  /\ LET o == arg[p].id
     IN  \/ /\ CanXLockOrder(p, o)
            /\ IF OrderRow(p, o).exists
                 THEN WriteOrder(p, o, [OrderRow(p, o) EXCEPT
                                          !.total_price = @ + loc[p].totalPrice])
                 ELSE UNCHANGED <<orders, tx>>
            /\ Ctl(p, "commit", loc[p], "none")
            /\ UNCHANGED items /\ SameIds /\ Quiet
         \/ StoreFails(p)

\* ---------------------------------------------------------- removeOrderItem
\* exports.removeOrderItem: orderService.removeOrderItem(itemId)
removeOrderItem(p) ==
  \E id \in ItemIds :
    Start(p, "removeOrderItem", [NoArg EXCEPT !.id = id], "getConnection")

\* SELECT order_id, total_price FROM order_items WHERE id = ?
\* (a consistent read inside the transaction: committed rows, no lock)
removeOrderItem_selectItem(p) ==
  /\ op[p] = "removeOrderItem" /\ pc[p] = "selectItem"
  /\ LET row == items[arg[p].id]
     IN  \/ /\ row.exists
            /\ Ctl(p, "deleteItem", [loc[p] EXCEPT !.order_id = row.order_id,
                                                   !.total_price = row.total_price],
                   "none")
            /\ SameData /\ Quiet
         \/ \* if (items.length === 0) throw new Error("Item not found");
            /\ ~row.exists
            /\ Ctl(p, "rollback", loc[p], "Item not found")
            /\ SameData /\ Quiet
         \/ StoreFails(p)

\* DELETE FROM order_items WHERE id = ?
removeOrderItem_deleteItem(p) ==
  /\ op[p] = "removeOrderItem" /\ pc[p] = "deleteItem"
  /\ LET i == arg[p].id
     IN  \/ /\ CanXLockItem(p, i)
            /\ IF ItemRow(p, i).exists THEN WriteItems(p, i :> NoItem, {}, {})
               ELSE UNCHANGED <<items, tx>>
            /\ Ctl(p, "updateTotal", loc[p], "none")
            /\ UNCHANGED orders /\ SameIds /\ Quiet
         \/ StoreFails(p)

\* (mutation) the order total is not decremented
removeOrderItem_updateTotal_keep(p) ==
  /\ op[p] = "removeOrderItem" /\ pc[p] = "updateTotal"
  /\ \/ /\ Ctl(p, "commit", loc[p], "none")
        /\ SameData /\ Quiet
     \/ StoreFails(p)

\* UPDATE orders SET total_price = total_price - ? WHERE id = ?
removeOrderItem_updateTotal(p) ==
  /\ op[p] = "removeOrderItem" /\ pc[p] = "updateTotal"
  /\ LET o == loc[p].order_id
     IN  \/ /\ CanXLockOrder(p, o)
            /\ IF OrderRow(p, o).exists
                 THEN WriteOrder(p, o, [OrderRow(p, o) EXCEPT
                                          !.total_price = @ - loc[p].total_price])
                 ELSE UNCHANGED <<orders, tx>>
            /\ Ctl(p, "commit", loc[p], "none")
            /\ UNCHANGED items /\ SameIds /\ Quiet
         \/ StoreFails(p)

\* -------------------------------------------------------------- updateOrder
OrderUpdates ==
  {[order_status |-> st, total_price |-> t] :
     st \in {"undefined", "shipped"}, t \in {undefined, 0, ExplicitTotal}}

\* exports.updateOrder: getOrderById (404 if absent), then orderService.updateOrder
updateOrder(p) ==
  \E id \in OrderIds, od \in OrderUpdates :
    Start(p, "updateOrder",
          [NoArg EXCEPT !.id = id, !.order_status = od.order_status,
                        !.total_price = od.total_price],
          "getOrderById")

\* the row after UPDATE orders SET <supplied fields> WHERE id = ?
UpdatedOrder(row, a) ==
  [row EXCEPT !.order_status = IF a.order_status # "undefined" THEN a.order_status ELSE @,
              !.total_price = IF a.total_price # undefined THEN a.total_price ELSE @]

\* orderService.updateOrder: one UPDATE through executeQuery (autocommit),
\* or no statement at all when no field was supplied
updateOrder_query(p) ==
  /\ op[p] = "updateOrder" /\ pc[p] = "updateQuery"
  /\ LET o == arg[p].id
     IN  IF arg[p].order_status = "undefined" /\ arg[p].total_price = undefined
           THEN \* return { message: "No updates provided" };
                /\ Ctl(p, "respond", loc[p], "none")
                /\ SameData /\ Quiet
           ELSE \/ /\ CanXLockOrder(p, o)
                   /\ IF orders[o].exists
                        THEN orders' = [orders EXCEPT ![o] = UpdatedOrder(@, arg[p])]
                        ELSE UNCHANGED orders
                   /\ Ctl(p, "respond", loc[p], "none")
                   /\ UNCHANGED <<items, tx>> /\ SameIds /\ Quiet
                \/ /\ Ctl(p, "respond", [loc[p] EXCEPT !.fault = TRUE], "StorageError")
                   /\ SameData /\ Quiet

\* ================================================== the authorization gate
NoToken == [kid |-> FALSE, keyOk |-> FALSE, alg |-> "none", sig |-> FALSE,
            iss |-> FALSE, aud |-> FALSE, expired |-> FALSE, token_use |-> "none",
            groups |-> {}]
NoUser == [present |-> FALSE, userId |-> "none", groups |-> {}, isAdmin |-> FALSE]
NoEvent == [method |-> "none", header |-> "none", token |-> NoToken]
NoOptions == [requireAdmin |-> FALSE, skipAuth |-> FALSE, useExternalAuth |-> FALSE]

\* no request is inside withAuth
NoGate ==
  /\ request = NoEvent
  /\ options = NoOptions
  /\ apc = "idle"
  /\ mode = "direct"
  /\ user = NoUser
  /\ error = "none"
  /\ externalAuthError = "none"
  /\ vstate = "Unauthenticated"
  /\ response = 0
  /\ handlerCalls = 0
  /\ eventUser = NoUser
  /\ verifyCalls = 0
  /\ verified = FALSE

ProdEnv == [STAGE |-> "prod", VPC_FUNCTION |-> FALSE, cognito |-> TRUE, extCognito |-> TRUE]
NoRequest == env = ProdEnv /\ NoGate

\* the steps every transactional service function shares
TxStep(p) ==
  \/ GetConnection(p)
  \/ BeginTransaction(p)
  \/ Commit(p)
  \/ Rollback(p)
  \/ Release(p)
  \/ Respond(p)
  \/ Return(p)

\* a claim absent from the payload, a header absent from the request
absent == "<absent>"
NoPayload == [sub |-> absent, username |-> absent, cognito_username |-> absent,
              email |-> absent, has_groups |-> FALSE, cognito_groups |-> << >>]
NoIdentity == [userId |-> absent, username |-> absent, email |-> absent,
               groups |-> << >>, isAdmin |-> FALSE]
NoHeader == [present |-> FALSE, value |-> << >>]
NoOutcome == [kind |-> "none", token |-> << >>]
\* no call of authenticate's mapping or of a token extraction is under way
NoCall ==
  /\ payload = NoPayload
  /\ identity = NoIdentity
  /\ authHeader = NoHeader
  /\ entry = "none"
  /\ outcome = NoOutcome

\* process instances of the function, client addresses, keys of the Map
Instances == 1..NumInstances
Ips == {"10.0.0.1", "10.0.0.2"}
Keys == Ips \cup {"unknown"}
NoEntry == [present |-> FALSE, count |-> 0, windowStart |-> 0]
NoLimitCall == [at |-> "idle", instance |-> 0, ip |-> "none", time |-> 0, statusCode |-> 0]
NoCaller == [userId |-> "none", isAdmin |-> FALSE]
NoPCall == [route |-> "none", at |-> "idle", caller |-> NoCaller, id |-> 0,
            sent |-> "none", body_user_id |-> "none", lookup |-> 0, statusCode |-> 0]
NoChange == [route |-> "none", order |-> 0, by |-> NoCaller, ownerBefore |-> "none"]
NoPublish == [at |-> "idle", topicArn |-> FALSE, orderId |-> 0, totalPrice |-> 0,
              orderStatus |-> "none", message |-> "none", result |-> "none"]
\* nothing is under way at the edge: no protected order route, no rate-limited
\* request, no notification
NoEdge ==
  /\ user_id = [o \in OrderIds |-> "none"]
  /\ pcall = NoPCall
  /\ lastChange = NoChange
  /\ rateLimitStore = [i \in Instances |-> [k \in Keys |-> NoEntry]]
  /\ hits = [i \in Instances |-> [k \in Keys |-> << >>]]
  /\ rl = NoLimitCall
  /\ sns = NoPublish

\* the clock stands still: every order is created at the same instant
ClockAtStart ==
  /\ now = 0
  /\ created_at = [o \in OrderIds |-> 0]

Idle ==
  /\ tx = [p \in Procs |-> NoTx]
  /\ conn = [p \in Procs |-> "none"]
  /\ op = [p \in Procs |-> "idle"]
  /\ pc = [p \in Procs |-> "done"]
  /\ arg = [p \in Procs |-> NoArg]
  /\ loc = [p \in Procs |-> NoLoc]
  /\ err = [p \in Procs |-> "none"]
  /\ resp = [p \in Procs |-> 0]
  /\ opsStarted = 0

\* the empty database
InitCreate ==
  /\ NoRequest
  /\ NoCall
  /\ NoEdge
  /\ ClockAtStart
  /\ pool \in dbConnectorExports
  /\ orders = [o \in OrderIds |-> NoOrder]
  /\ items = [i \in ItemIds |-> NoItem]
  /\ nextOrderId = 1
  /\ nextItemId = 1
  /\ Idle

NextCreate ==
  /\ UNCHANGED <<authVars, clockVars, callVars, edgeVars>>
  /\ \E p \in Procs :
       \/ createOrder(p)
       \/ getOrders(p)
       \/ getOrderById_order(p)
       \/ getOrderById_items(p)
       \/ createOrder_insertOrder(p)
       \/ createOrder_insertItem(p)
       \/ createOrder_updateTotal(p)
       \/ TxStep(p)

\* createOrder requests against an empty database, next to readers
CreateSpec == InitCreate /\ [][NextCreate]_vars

\* a database as createOrder leaves it: order 1 (pending) with its first n
\* items, each of quantity 1 at MaxPrice
SeedItem == [product_id |-> 1, quantity |-> 1, unit_price |-> MaxPrice]
Seeded(n) ==
  /\ orders = [o \in OrderIds |-> IF o = 1
                  THEN [exists |-> TRUE, order_status |-> "pending",
                        total_price |-> n * ItemTotal(SeedItem)]
                  ELSE NoOrder]
  /\ items = [i \in ItemIds |-> IF i <= n THEN NewItemRow(1, SeedItem, ItemTotal(SeedItem))
                                ELSE NoItem]
  /\ nextOrderId = 2
  /\ nextItemId = n + 1

Init ==
  /\ NoRequest
  /\ NoCall
  /\ NoEdge
  /\ ClockAtStart
  /\ pool \in dbConnectorExports
  /\ Seeded(1)
  /\ Idle

Next ==
  /\ UNCHANGED <<authVars, clockVars, callVars, edgeVars>>
  /\ \E p \in Procs :
       \/ deleteOrder(p)
       \/ addOrderItem(p)
       \/ removeOrderItem(p)
       \/ updateOrder(p)
       \/ getOrderById_order(p)
       \/ getOrderById_items(p)
       \/ Respond400(p)
       \/ deleteOrder_deleteItems(p)
       \/ deleteOrder_deleteOrder(p)
       \/ addOrderItem_insertItem(p)
       \/ addOrderItem_updateTotal(p)
       \/ removeOrderItem_selectItem(p)
       \/ removeOrderItem_deleteItem(p)
       \/ removeOrderItem_updateTotal(p)
       \/ updateOrder_query(p)
       \/ TxStep(p)

\* concurrent requests on the orders of a seeded database
Spec == Init /\ [][Next]_vars

\* one request at a time: a call starts only when every process is idle, and
\* the sequence may be MaxSeqOps calls long
AllIdle == \A q \in Procs : op[q] = "idle"
SeqStart(p, name, a, first) ==
  /\ AllIdle
  /\ opsStarted < MaxSeqOps
  /\ op' = [op EXCEPT ![p] = name]
  /\ arg' = [arg EXCEPT ![p] = a]
  /\ Ctl(p, first, NoLoc, "none")
  /\ opsStarted' = opsStarted + 1
  /\ SameData /\ UNCHANGED <<pool, conn, resp>>

addOrderItemSeq(p) ==
  \E id \in OrderIds, item \in ItemInputs :
    SeqStart(p, "addOrderItem", [NoArg EXCEPT !.id = id, !.item = item],
             IF MissingItemFields(item) THEN "respond400" ELSE "getOrderById")

removeOrderItemSeq(p) ==
  \E id \in ItemIds :
    SeqStart(p, "removeOrderItem", [NoArg EXCEPT !.id = id], "getConnection")

NextSeq ==
  /\ UNCHANGED <<authVars, clockVars, callVars, edgeVars>>
  /\ \E p \in Procs :
       \/ addOrderItemSeq(p)
       \/ removeOrderItemSeq(p)
       \/ getOrderById_order(p)
       \/ getOrderById_items(p)
       \/ Respond400(p)
       \/ addOrderItem_insertItem(p)
       \/ addOrderItem_updateTotal(p)
       \/ removeOrderItem_selectItem(p)
       \/ removeOrderItem_deleteItem(p)
       \/ removeOrderItem_updateTotal(p)
       \/ TxStep(p)

\* addOrderItem / removeOrderItem requests, one after the other, on a seeded
\* database (whose order total equals the sum of its items)
SeqSpec == Init /\ [][NextSeq]_vars

\* ------------------------------------------------------------ getTotalPrice
\* instants: day d starts at Midnight(d); day 0 is 2020-01-01
Days == 0..MaxDay
Times == 0..((MaxDay + 1) * TicksPerDay - 1)
Midnight(d) == d * TicksPerDay
\* new Date().toISOString().slice(0, 10): the date of the instant t
DateOf(t) == t \div TicksPerDay
\* dateRange: from and to are dates, or undefined
DateRanges == [from : Days \cup {undefined}, to : Days \cup {undefined}]

\* exports.getTotalPrice: orderService.getTotalPrice({from, to})
getTotalPrice(p) ==
  \E r \in DateRanges :
    /\ \A q \in Others(p) : op[q] # "getTotalPrice"
    /\ Start(p, "getTotalPrice", [NoArg EXCEPT !.from = r.from, !.to = r.to], "getConnection")

\* the orders the WHERE clause selects: created_at BETWEEN fromDate AND toDate,
\* a date compared with a timestamp being the midnight that starts it
Selected(fromDate, toDate) ==
  {o \in OrderIds : /\ orders[o].exists
                    /\ Midnight(fromDate) <= created_at[o]
                    /\ created_at[o] <= Midnight(toDate)}
RECURSIVE SumTotals(_)
\* SUM(total_price) over the orders in S
SumTotals(S) ==
  IF S = {} THEN 0
  ELSE LET o == CHOOSE x \in S : TRUE
       IN  orders[o].total_price + SumTotals(S \ {o})

\* const [rows] = await connection.execute(query, [fromDate, toDate]);
\* return rows[0].total || 0;
getTotalPrice_query(p) ==
  /\ op[p] = "getTotalPrice" /\ pc[p] = "sumQuery"
  /\ LET fromDate == IF arg[p].from = undefined THEN 0 ELSE arg[p].from
         toDate == IF arg[p].to = undefined THEN DateOf(now) ELSE arg[p].to
         rows == Selected(fromDate, toDate)
         total == IF rows = {} THEN undefined ELSE SumTotals(rows)
     IN  \/ Ctl(p, "release", [loc[p] EXCEPT !.ret = OrElse(total, 0)], "none")
         \/ Ctl(p, "release", [loc[p] EXCEPT !.fault = TRUE], "StorageError")
  /\ SameData /\ Quiet

\* time passes
Tick ==
  /\ now + 1 \in Times
  /\ now' = now + 1
  /\ UNCHANGED <<pool, orders, items, nextOrderId, nextItemId, tx, conn, op, pc,
                 arg, loc, err, resp, opsStarted, created_at, authVars, callVars, edgeVars>>

TotalPrices == {0, MaxPrice}
\* orders 1..n exist, created one after the other up to now, without items
\* (as createOrder with an explicit total and no items leaves them)
InitTotal ==
  /\ NoRequest
  /\ NoCall
  /\ NoEdge
  /\ pool \in dbConnectorExports
  /\ now \in Times
  /\ \E n \in 0..MaxOrders :
       /\ nextOrderId = n + 1
       /\ orders \in [OrderIds -> [exists : BOOLEAN, order_status : {"pending", "none"},
                                   total_price : TotalPrices]]
       /\ \A o \in OrderIds :
            IF o <= n THEN orders[o].exists /\ orders[o].order_status = "pending"
            ELSE orders[o] = NoOrder
       /\ created_at \in [OrderIds -> Times]
       /\ \A o \in OrderIds :
            IF o <= n THEN created_at[o] <= now ELSE created_at[o] = 0
       /\ \A o1, o2 \in OrderIds : o1 < o2 /\ o2 <= n => created_at[o1] <= created_at[o2]
  /\ items = [i \in ItemIds |-> NoItem]
  /\ nextItemId = 1
  /\ Idle

NextTotal ==
  \/ Tick
  \/ /\ UNCHANGED <<authVars, clockVars, callVars, edgeVars>>
     /\ \E p \in Procs :
          \/ getTotalPrice(p)
          \/ GetConnection(p)
          \/ getTotalPrice_query(p)
          \/ Release(p)
          \/ Respond(p)
          \/ Return(p)

\* getTotalPrice requests over a table of orders while time passes
TotalSpec == InitTotal /\ [][NextTotal]_vars

\* ============================================ the authorization gate: withAuth
Stages == {"dev", "prod"}
\* process.env: STAGE, VPC_FUNCTION === "true", COGNITO_USER_POOL_ID and
\* COGNITO_CLIENT_ID both set in this function (cognito) and in the
\* authenticateUser function (extCognito)
Envs == [STAGE : Stages, VPC_FUNCTION : BOOLEAN, cognito : BOOLEAN, extCognito : BOOLEAN]

GroupSets == {{}, {"admin"}, {"users"}}
TokenUses == {"id", "access", "refresh"}
AllTokens == [kid : BOOLEAN, keyOk : BOOLEAN, alg : {"RS256", "HS256"}, sig : BOOLEAN,
              iss : BOOLEAN, aud : BOOLEAN, expired : BOOLEAN, token_use : TokenUses,
              groups : GroupSets]
B2N(b) == IF b THEN 1 ELSE 0
\* how many properties of a well-formed Cognito token t lacks
Defects(t) ==
  B2N(~t.kid) + B2N(~t.keyOk) + B2N(t.alg # "RS256") + B2N(~t.sig) + B2N(~t.iss)
  + B2N(~t.aud) + B2N(t.expired) + B2N(t.token_use = "refresh")
Tokens == {t \in AllTokens : Defects(t) <= MaxDefects}

Methods == {"GET", "OPTIONS"}
\* the Authorization header: absent, not of the form "Bearer <token>", or that form
Events ==
  [method : Methods, header : {"none", "malformed"}, token : {NoToken}]
  \cup [method : Methods, header : {"bearer"}, token : Tokens]
RouteOptions == [requireAdmin : BOOLEAN, skipAuth : BOOLEAN, useExternalAuth : BOOLEAN]
\* statusCode of the response of a wrapped handler that returns
HandlerResults == {200, 404}

NoAuthorizationHeader == "No authorization header found"
InvalidAuthorizationHeader == "Invalid authorization header format. Expected: Bearer <token>"
TokenVerificationFailed == "Token verification failed: "
CognitoConfigurationMissing == "Cognito configuration missing. Please set COGNITO_USER_POOL_ID and COGNITO_CLIENT_ID environment variables."
ExternalFunctionError == "External auth function error: "
HandlerError == "handler error"

\* extractToken: the error it throws, "none" when it returns the token
extractToken(event) ==
  IF event.header = "none" THEN NoAuthorizationHeader
  ELSE IF event.header = "malformed" THEN InvalidAuthorizationHeader
  ELSE "none"

\* jwt.decode(token, {complete: true}) yields a header with a kid
HasKid(t) == t.kid
\* getKey(kid, client) resolves the signing key: the key set could be fetched
\* (or is cached) and lists the kid
KeyResolved(t, fetched) == fetched /\ t.keyOk
\* jwt.verify(token, signingKey, {audience, issuer, algorithms: ["RS256"]})
jwtVerify(t) == t.alg = "RS256" /\ t.sig /\ ~t.expired /\ t.aud /\ t.iss
tokenUseOk_any(t) == TRUE
\* payload.token_use is "access" or "id"
tokenUseOk(t) == t.token_use = "access" \/ t.token_use = "id"
\* verifyToken returns the payload (it throws TokenVerificationFailed otherwise)
verifyToken(t, fetched) ==
  HasKid(t) /\ KeyResolved(t, fetched) /\ jwtVerify(t) /\ tokenUseOk(t)

\* the user object authenticate builds from the payload
UserOf(t) == [present |-> TRUE, userId |-> "sub", groups |-> t.groups,
              isAdmin |-> "admin" \in t.groups]

\* authenticate(event) as one call, in a function whose Cognito configuration
\* is present iff configured: the error it throws ("none": it returns UserOf)
authenticate(event, configured, fetched) ==
  IF ~configured THEN CognitoConfigurationMissing
  ELSE IF extractToken(event) # "none" THEN extractToken(event)
  ELSE IF ~verifyToken(event.token, fetched) THEN TokenVerificationFailed
  ELSE "none"

SkipsAuth_anyStage(o, e) == o.skipAuth
\* the route skips authentication
SkipsAuth(o, e) == o.skipAuth /\ e.STAGE = "dev"
UsesExternal(o, e) == e.VPC_FUNCTION \/ o.useExternalAuth
AdminRefused_never(o, u) == FALSE
\* the route is for admins and the user is none
AdminRefused(o, u) == o.requireAdmin /\ ~u.isAdmin
CatchStatus_noVerify(message) ==
  IF message \in {NoAuthorizationHeader, InvalidAuthorizationHeader} THEN 401 ELSE 500
\* the status the catch block of withAuth answers with
CatchStatus(message) ==
  IF message \in {NoAuthorizationHeader, InvalidAuthorizationHeader, TokenVerificationFailed}
  THEN 401
  ELSE IF message = CognitoConfigurationMissing THEN 500
  ELSE 500

SameRequest == UNCHANGED <<ledgerVars, env, request, options>>
SameHistory == UNCHANGED <<handlerCalls, eventUser, verifyCalls, verified>>
Gate(l, m, u, e, x, v, r) ==
  /\ apc' = l
  /\ mode' = m
  /\ user' = u
  /\ error' = e
  /\ externalAuthError' = x
  /\ vstate' = v
  /\ response' = r
  /\ SameRequest
\* an exception leaves authenticate(event); in the fallback withAuth throws
\* the error of the external authentication in its place
Throw(message) ==
  Gate("catch", mode, NoUser,
       IF mode = "fallback" THEN externalAuthError ELSE message,
       externalAuthError, "Rejected", response)

\* API Gateway hands a request to the function a route is wrapped into
Receive ==
  /\ apc = "idle"
  /\ \E ev \in Events, o \in RouteOptions :
       /\ request' = ev
       /\ options' = o
  /\ apc' = "withAuth"
  /\ mode' = "direct"
  /\ user' = NoUser
  /\ error' = "none"
  /\ externalAuthError' = "none"
  /\ vstate' = "Unauthenticated"
  /\ response' = 0
  /\ handlerCalls' = 0
  /\ eventUser' = NoUser
  /\ verifyCalls' = 0
  /\ verified' = FALSE
  /\ UNCHANGED <<ledgerVars, env>>

\* withAuth up to its first await
withAuth ==
  /\ apc = "withAuth"
  /\ SameHistory
  /\ IF request.method = "OPTIONS"
     THEN Gate("responded", mode, user, error, externalAuthError, vstate, 200)
     ELSE IF SkipsAuth(options, env)
     THEN Gate("handler", mode, user, error, externalAuthError, vstate, response)
     ELSE IF UsesExternal(options, env)
     THEN Gate("authenticateExternal", mode, user, error, externalAuthError, vstate, response)
     ELSE Gate("authenticate", "direct", user, error, externalAuthError, vstate, response)

\* await authenticateExternal(event): the invocation fails, or authenticateUser
\* runs authenticate(event) and answers 200 with the user or 401 with the message
authenticateExternal ==
  /\ apc = "authenticateExternal"
  /\ UNCHANGED <<handlerCalls, eventUser>>
  /\ \E invoked, fetched \in BOOLEAN :
       LET e == IF invoked THEN authenticate(request, env.extCognito, fetched)
                ELSE ExternalFunctionError
           ran == invoked /\ env.extCognito /\ extractToken(request) = "none"
       IN  /\ verifyCalls' = verifyCalls + B2N(ran)
           /\ verified' = (e = "none")
           /\ IF e = "none"
              THEN Gate("authorize", mode, UserOf(request.token), error,
                        externalAuthError, "Verified", response)
              ELSE Gate("authenticate", "fallback", user, error, e,
                        IF invoked THEN "Rejected" ELSE vstate, response)

\* authenticate(event) up to the await of verifyToken
authenticate_extractToken ==
  /\ apc = "authenticate"
  /\ SameHistory
  /\ IF ~env.cognito THEN Throw(CognitoConfigurationMissing)
     ELSE IF extractToken(request) # "none" THEN Throw(extractToken(request))
     ELSE Gate("verifyToken", mode, user, error, externalAuthError,
               "TokenExtracted", response)

\* verifyToken up to the await of getKey
verifyToken_getKey ==
  /\ apc = "verifyToken"
  /\ verifyCalls' = verifyCalls + 1
  /\ UNCHANGED <<handlerCalls, eventUser, verified>>
  /\ \E fetched \in BOOLEAN :
       IF HasKid(request.token) /\ KeyResolved(request.token, fetched)
       THEN Gate("jwtVerify", mode, user, error, externalAuthError, "KeyResolved", response)
       ELSE Throw(TokenVerificationFailed)

\* verifyToken after getKey, and the rest of authenticate
verifyToken_verify ==
  /\ apc = "jwtVerify"
  /\ UNCHANGED <<handlerCalls, eventUser, verifyCalls>>
  /\ IF jwtVerify(request.token) /\ tokenUseOk(request.token)
     THEN /\ verified' = TRUE
          /\ Gate("authorize", mode, UserOf(request.token), error,
                  externalAuthError, "Verified", response)
     ELSE /\ verified' = FALSE
          /\ Throw(TokenVerificationFailed)

\* withAuth after authentication: event.user and the admin check
withAuth_authorize ==
  /\ apc = "authorize" /\ mode # "optional"
  /\ eventUser' = user
  /\ UNCHANGED <<handlerCalls, verifyCalls, verified>>
  /\ IF AdminRefused(options, user)
     THEN Gate("responded", mode, user, error, externalAuthError, vstate, 403)
     ELSE Gate("handler", mode, user, error, externalAuthError, vstate, response)

\* await handler(event, context): it returns a response or throws
withAuth_handler ==
  /\ apc = "handler"
  /\ handlerCalls' = handlerCalls + 1
  /\ UNCHANGED <<eventUser, verifyCalls, verified>>
  /\ \/ \E r \in HandlerResults :
          Gate("responded", mode, user, error, externalAuthError, vstate, r)
     \/ Gate("catch", mode, user, HandlerError, externalAuthError, vstate, response)

\* the catch block of withAuth
withAuth_catch ==
  /\ apc = "catch" /\ mode # "optional"
  /\ SameHistory
  /\ Gate("responded", mode, user, error, externalAuthError, vstate, CatchStatus(error))

\* the response is sent, or the rejection has reached the Lambda runtime
Responded ==
  /\ apc \in {"responded", "rejected"}
  /\ request' = NoEvent
  /\ options' = NoOptions
  /\ apc' = "idle"
  /\ mode' = "direct"
  /\ user' = NoUser
  /\ error' = "none"
  /\ externalAuthError' = "none"
  /\ vstate' = "Unauthenticated"
  /\ response' = 0
  /\ handlerCalls' = 0
  /\ eventUser' = NoUser
  /\ verifyCalls' = 0
  /\ verified' = FALSE
  /\ UNCHANGED <<ledgerVars, env>>

\* --------------------------------------------------------- withOptionalAuth
\* a request arrives at a function wrapped into withOptionalAuth(handler)
ReceiveOptional ==
  /\ apc = "idle"
  /\ \E ev \in Events : request' = ev
  /\ options' = NoOptions
  /\ apc' = "withOptionalAuth"
  /\ mode' = "optional"
  /\ user' = NoUser
  /\ error' = "none"
  /\ externalAuthError' = "none"
  /\ vstate' = "Unauthenticated"
  /\ response' = 0
  /\ handlerCalls' = 0
  /\ eventUser' = NoUser
  /\ verifyCalls' = 0
  /\ verified' = FALSE
  /\ UNCHANGED <<ledgerVars, env>>

\* if (authHeader) { const user = await authenticate(event); ... }
withOptionalAuth ==
  /\ apc = "withOptionalAuth"
  /\ SameHistory
  /\ IF request.header = "none"
     THEN Gate("optionalHandler", mode, user, error, externalAuthError, vstate, response)
     ELSE Gate("authenticate", mode, user, error, externalAuthError, vstate, response)

\* event.user = user; event.requestContext.authorizer = {...}
withOptionalAuth_attach ==
  /\ apc = "authorize" /\ mode = "optional"
  /\ eventUser' = user
  /\ UNCHANGED <<handlerCalls, verifyCalls, verified>>
  /\ Gate("optionalHandler", mode, user, error, externalAuthError, vstate, response)

\* return await handler(event, context);   (inside the try block)
withOptionalAuth_handler ==
  /\ apc = "optionalHandler"
  /\ handlerCalls' = handlerCalls + 1
  /\ UNCHANGED <<eventUser, verifyCalls, verified>>
  /\ \/ \E r \in HandlerResults :
          Gate("responded", mode, user, error, externalAuthError, vstate, r)
     \/ Gate("catch", mode, user, HandlerError, externalAuthError, vstate, response)

\* catch (error) { return await handler(event, context); }: whatever was
\* thrown in the try block, the handler is invoked; what it throws now
\* rejects the promise withOptionalAuth returned
withOptionalAuth_catch ==
  /\ apc = "catch" /\ mode = "optional"
  /\ handlerCalls' = handlerCalls + 1
  /\ UNCHANGED <<eventUser, verifyCalls, verified>>
  /\ \/ \E r \in HandlerResults :
          Gate("responded", mode, user, error, externalAuthError, vstate, r)
     \/ Gate("rejected", mode, user, HandlerError, externalAuthError, vstate, response)

InitAuth ==
  /\ env \in Envs
  /\ NoCall
  /\ NoEdge
  /\ ClockAtStart
  /\ NoGate
  /\ pool = "pool"
  /\ orders = [o \in OrderIds |-> NoOrder]
  /\ items = [i \in ItemIds |-> NoItem]
  /\ nextOrderId = 1
  /\ nextItemId = 1
  /\ Idle

NextAuth ==
  \/ Receive
  \/ withAuth
  \/ authenticateExternal
  \/ authenticate_extractToken
  \/ verifyToken_getKey
  \/ verifyToken_verify
  \/ withAuth_authorize
  \/ withAuth_handler
  \/ withAuth_catch
  \/ Responded

\* requests through withAuth, one at a time, in every deployment
AuthSpec == InitAuth /\ [][NextAuth]_vars

NextGate ==
  \/ NextAuth
  \/ ReceiveOptional
  \/ withOptionalAuth
  \/ withOptionalAuth_attach
  \/ withOptionalAuth_handler
  \/ withOptionalAuth_catch

\* requests through withAuth and through withOptionalAuth
GateSpec == InitAuth /\ [][NextGate]_vars

\* ------------------------------------------- every user of a pooled connection
NextPool ==
  /\ UNCHANGED <<authVars, clockVars, callVars, edgeVars>>
  /\ \E p \in Procs :
       \/ AllIdle /\ createOrder(p)
       \/ AllIdle /\ deleteOrder(p)
       \/ AllIdle /\ addOrderItem(p)
       \/ AllIdle /\ removeOrderItem(p)
       \/ AllIdle /\ getTotalPrice(p)
       \/ getOrderById_order(p)
       \/ getOrderById_items(p)
       \/ Respond400(p)
       \/ createOrder_insertOrder(p)
       \/ createOrder_insertItem(p)
       \/ createOrder_updateTotal(p)
       \/ deleteOrder_deleteItems(p)
       \/ deleteOrder_deleteOrder(p)
       \/ addOrderItem_insertItem(p)
       \/ addOrderItem_updateTotal(p)
       \/ removeOrderItem_selectItem(p)
       \/ removeOrderItem_deleteItem(p)
       \/ removeOrderItem_updateTotal(p)
       \/ getTotalPrice_query(p)
       \/ TxStep(p)

\* the five service functions that check a connection out of the pool, called
\* one after the other on a seeded database
PoolSpec == Init /\ [][NextPool]_vars

\* ------------------------------------- authenticate: claims to user object
Subjects == {"sub-1", "sub-2"}
GroupNames == {"admin", "Admin", "administrators"}
\* the payload of a verified Cognito token: the claims authenticate reads
Payloads ==
  [sub : Subjects, username : {absent, "", "alice"}, cognito_username : {absent, "bob"},
   email : {absent, "a@example.com"}, has_groups : {TRUE},
   cognito_groups : SeqsUpTo(GroupNames, MaxGroups)]
  \cup [sub : Subjects, username : {absent, "", "alice"},
        cognito_username : {absent, "bob"}, email : {absent, "a@example.com"},
        has_groups : {FALSE}, cognito_groups : {<< >>}]

\* JavaScript a || b on optional strings: undefined and "" are falsy
OrElseStr(a, b) == IF a # absent /\ a # "" THEN a ELSE b
\* Array.prototype.includes
includes(list, x) == \E i \in 1..Len(list) : list[i] = x
\* payload["cognito:groups"] || []
GroupsOf(pl) == IF pl.has_groups THEN pl.cognito_groups ELSE << >>
isAdmin_anyCase(pl) == includes(GroupsOf(pl), "admin") \/ includes(GroupsOf(pl), "Admin")
\* isAdmin: (payload["cognito:groups"] || []).includes("admin")
isAdmin(pl) == includes(GroupsOf(pl), "admin")
\* the object authenticate returns for the payload pl
authenticate_user(pl) ==
  [userId |-> pl.sub,
   username |-> OrElseStr(pl.username, pl.cognito_username),
   email |-> pl.email,
   groups |-> GroupsOf(pl),
   isAdmin |-> isAdmin(pl)]

\* verifyToken returned the payload pl
Verified ==
  /\ payload = NoPayload
  /\ \E pl \in Payloads : payload' = pl
  /\ identity' = NoIdentity
  /\ UNCHANGED <<pool, orders, items, nextOrderId, nextItemId, tx, conn, op, pc,
                 arg, loc, err, resp, opsStarted, clockVars, authHeader, entry,
                 outcome, authVars, edgeVars>>
\* return { userId: payload.sub, ... }
ReturnUser ==
  /\ payload # NoPayload /\ identity = NoIdentity
  /\ identity' = authenticate_user(payload)
  /\ UNCHANGED <<pool, orders, items, nextOrderId, nextItemId, tx, conn, op, pc,
                 arg, loc, err, resp, opsStarted, clockVars, payload, authHeader,
                 entry, outcome, authVars, edgeVars>>
\* the next call
NextCall ==
  /\ identity # NoIdentity \/ outcome # NoOutcome
  /\ payload' = NoPayload
  /\ identity' = NoIdentity
  /\ authHeader' = NoHeader
  /\ entry' = "none"
  /\ outcome' = NoOutcome
  /\ UNCHANGED <<pool, orders, items, nextOrderId, nextItemId, tx, conn, op, pc,
                 arg, loc, err, resp, opsStarted, clockVars, authVars, edgeVars>>

NextIdentity == Verified \/ ReturnUser \/ NextCall
\* authenticate's mapping applied to every payload
IdentitySpec == InitCreate /\ [][NextIdentity]_vars

\* ------------------------------ taking the bearer token out of a request
\* a header value is a string, written as the sequence of its pieces: the
\* scheme word in two spellings, one space character, a piece of token text
Chunks == {"Bearer", "bearer", " ", "tok"}
HeaderValues == SeqsUpTo(Chunks, MaxHeaderLen)
\* event.headers.authorization (extractToken), event.authorizationToken (authorizer)
Headers == {NoHeader} \cup [present : {TRUE}, value : HeaderValues]
EntryPoints == {"extractToken", "authorizer"}

\* String.prototype.split(" "): the pieces between the spaces, empty ones included
RECURSIVE split(_)
split(str) ==
  IF str = << >> THEN << << >> >>
  ELSE LET rest == split(Tail(str))
       IN IF Head(str) = " " THEN << << >> >> \o rest
          ELSE << <<Head(str)>> \o Head(rest) >> \o Tail(rest)
\* String.prototype.replace("Bearer ", ""): the first occurrence is removed
RECURSIVE replaceBearer(_)
replaceBearer(str) ==
  IF Len(str) < 2 THEN str
  ELSE IF str[1] = "Bearer" /\ str[2] = " " THEN Tail(Tail(str))
  ELSE <<Head(str)>> \o replaceBearer(Tail(str))
\* !authHeader, !token: undefined and "" are falsy
Falsy(h) == ~h.present \/ h.value = << >>

\* extractToken: the token it returns or the error it throws
extractToken_result(h) ==
  IF Falsy(h) THEN [kind |-> "missing", token |-> << >>]
  ELSE LET parts == split(h.value)
       IN IF Len(parts) # 2 \/ parts[1] # <<"Bearer">>
          THEN [kind |-> "malformed", token |-> << >>]
          ELSE [kind |-> "token", token |-> parts[2]]
\* authorizer: the token it hands to verifyToken, or "No token provided"
authorizer_result(h) ==
  IF ~h.present \/ replaceBearer(h.value) = << >>
  THEN [kind |-> "missing", token |-> << >>]
  ELSE [kind |-> "token", token |-> replaceBearer(h.value)]

\* a request arrives at one of the entry points
ReceiveHeader ==
  /\ entry = "none" /\ payload = NoPayload
  /\ \E e \in EntryPoints : entry' = e
  /\ \E h \in Headers : authHeader' = h
  /\ outcome' = NoOutcome
  /\ UNCHANGED <<pool, orders, items, nextOrderId, nextItemId, tx, conn, op, pc,
                 arg, loc, err, resp, opsStarted, clockVars, payload, identity,
                 authVars, edgeVars>>
extractToken_call ==
  /\ entry = "extractToken" /\ outcome = NoOutcome
  /\ outcome' = extractToken_result(authHeader)
  /\ UNCHANGED <<pool, orders, items, nextOrderId, nextItemId, tx, conn, op, pc,
                 arg, loc, err, resp, opsStarted, clockVars, payload, identity,
                 authHeader, entry, authVars, edgeVars>>
authorizer_token ==
  /\ entry = "authorizer" /\ outcome = NoOutcome
  /\ outcome' = authorizer_result(authHeader)
  /\ UNCHANGED <<pool, orders, items, nextOrderId, nextItemId, tx, conn, op, pc,
                 arg, loc, err, resp, opsStarted, clockVars, payload, identity,
                 authHeader, entry, authVars, edgeVars>>

NextHeader == ReceiveHeader \/ extractToken_call \/ authorizer_token \/ NextCall
\* every header value handed to extractToken and to authorizer
HeaderSpec == InitCreate /\ [][NextHeader]_vars

\* ------------------------------------ protectedHandler.js: the order routes
\* event.user as withAuth attached it
Callers == [userId : Subjects, isAdmin : BOOLEAN]
\* body.user_id as the client sent it
BodyUserIds == Subjects \cup {"undefined"}
ProtectedRoutes == {"createOrder", "updateOrder", "addOrderItem", "removeOrderItem"}

ForcedUserId_asSent(caller, sent) == sent
\* if (!event.user.isAdmin) { body.user_id = event.user.userId; }
ForcedUserId(caller, sent) == IF ~caller.isAdmin THEN caller.userId ELSE sent

\* what a step of a protected order route leaves alone
OwnerFrame ==
  UNCHANGED <<pool, items, nextItemId, tx, conn, op, pc, arg, loc, err, resp,
              opsStarted, clockVars, callVars, authVars, rateLimitStore, hits, rl, sns>>
PDone(code) ==
  pcall' = [pcall EXCEPT !.at = "done", !.statusCode = code]
\* the handler changed order o
Changed(o) ==
  lastChange' = [route |-> pcall.route, order |-> o, by |-> pcall.caller,
                 ownerBefore |-> user_id[o]]

\* withAuth verified the caller and invokes the route's handler; id is
\* event.pathParameters.id (0: none), the order of the item for removeOrderItem
ProtectedReceive ==
  /\ pcall.at = "idle"
  /\ \E r \in ProtectedRoutes, c \in Callers, id \in OrderIds \cup {0}, u \in BodyUserIds :
       pcall' = [route |-> r, at |-> "handler", caller |-> c, id |-> id,
                 sent |-> u, body_user_id |-> u, lookup |-> 0, statusCode |-> 0]
  /\ UNCHANGED <<orders, nextOrderId, user_id, lastChange>> /\ OwnerFrame

\* exports.createOrder up to `await originalHandler.createOrder(event)`
protected_createOrder ==
  /\ pcall.route = "createOrder" /\ pcall.at = "handler"
  /\ pcall' = [pcall EXCEPT !.at = "forward",
                            !.body_user_id = ForcedUserId(pcall.caller, pcall.sent)]
  /\ UNCHANGED <<orders, nextOrderId, user_id, lastChange>> /\ OwnerFrame

\* originalHandler.createOrder: 400 without user_id, else orderService.createOrder
originalHandler_createOrder ==
  /\ pcall.route = "createOrder" /\ pcall.at = "forward"
  /\ \/ /\ pcall.body_user_id = "undefined"
        /\ PDone(400)
        /\ UNCHANGED <<orders, nextOrderId, user_id, lastChange>>
     \/ /\ pcall.body_user_id # "undefined"
        /\ pool = "pool" /\ nextOrderId <= MaxOrders
        /\ orders' = [orders EXCEPT ![nextOrderId] =
                        [exists |-> TRUE, order_status |-> "pending", total_price |-> 0]]
        /\ user_id' = [user_id EXCEPT ![nextOrderId] = pcall.body_user_id]
        /\ nextOrderId' = nextOrderId + 1
        /\ Changed(nextOrderId)
        /\ PDone(201)
     \/ /\ pcall.body_user_id # "undefined"
        /\ PDone(500)
        /\ UNCHANGED <<orders, nextOrderId, user_id, lastChange>>
  /\ OwnerFrame

\* exports.updateOrder up to its first await
protected_updateOrder ==
  /\ pcall.route = "updateOrder" /\ pcall.at = "handler"
  /\ IF pcall.caller.isAdmin THEN pcall' = [pcall EXCEPT !.at = "forward"]
     ELSE IF pcall.id = 0 THEN PDone(400)
     ELSE pcall' = [pcall EXCEPT !.at = "getOrders"]
  /\ UNCHANGED <<orders, nextOrderId, user_id, lastChange>> /\ OwnerFrame

\* const orderResult = await originalHandler.getOrders(getEvent): 200 with the
\* order, 404, or 500 when the query failed; only a 200 is compared
protected_updateOrder_getOrders ==
  /\ pcall.route = "updateOrder" /\ pcall.at = "getOrders"
  /\ \E code \in {IF orders[pcall.id].exists THEN 200 ELSE 404, 500} :
       IF code = 200 /\ user_id[pcall.id] # pcall.caller.userId
       THEN pcall' = [pcall EXCEPT !.at = "done", !.lookup = code, !.statusCode = 403]
       ELSE pcall' = [pcall EXCEPT !.at = "forward", !.lookup = code]
  /\ UNCHANGED <<orders, nextOrderId, user_id, lastChange>> /\ OwnerFrame

\* originalHandler.updateOrder: 400 without id, 404 without order, else
\* orderService.updateOrder(orderId, body), which sets body.user_id if given
originalHandler_updateOrder ==
  /\ pcall.route = "updateOrder" /\ pcall.at = "forward"
  /\ IF pcall.id = 0
     THEN PDone(400) /\ UNCHANGED <<user_id, lastChange>>
     ELSE \/ /\ ~orders[pcall.id].exists
             /\ PDone(404)
             /\ UNCHANGED <<user_id, lastChange>>
          \/ /\ orders[pcall.id].exists
             /\ user_id' = [user_id EXCEPT ![pcall.id] =
                              IF pcall.body_user_id # "undefined"
                              THEN pcall.body_user_id ELSE @]
             /\ Changed(pcall.id)
             /\ PDone(200)
          \/ /\ PDone(500)
             /\ UNCHANGED <<user_id, lastChange>>
  /\ UNCHANGED <<orders, nextOrderId>> /\ OwnerFrame

\* exports.addOrderItem = withAuth(originalHandler.addOrderItem)
protected_addOrderItem ==
  /\ pcall.route = "addOrderItem" /\ pcall.at = "handler"
  /\ IF pcall.id = 0
     THEN PDone(400) /\ UNCHANGED lastChange
     ELSE \/ /\ ~orders[pcall.id].exists
             /\ PDone(404)
             /\ UNCHANGED lastChange
          \/ /\ orders[pcall.id].exists /\ pool = "pool"
             /\ Changed(pcall.id)
             /\ PDone(201)
          \/ /\ PDone(500)
             /\ UNCHANGED lastChange
  /\ UNCHANGED <<orders, nextOrderId, user_id>> /\ OwnerFrame

\* exports.removeOrderItem = withAuth(originalHandler.removeOrderItem)
protected_removeOrderItem ==
  /\ pcall.route = "removeOrderItem" /\ pcall.at = "handler"
  /\ IF pcall.id = 0
     THEN PDone(400) /\ UNCHANGED lastChange
     ELSE \/ /\ orders[pcall.id].exists /\ pool = "pool"
             /\ Changed(pcall.id)
             /\ PDone(200)
          \/ /\ PDone(500)
             /\ UNCHANGED lastChange
  /\ UNCHANGED <<orders, nextOrderId, user_id>> /\ OwnerFrame

\* the response is sent
ProtectedRespond ==
  /\ pcall.at = "done"
  /\ pcall' = NoPCall
  /\ lastChange' = NoChange
  /\ UNCHANGED <<orders, nextOrderId, user_id>> /\ OwnerFrame

\* order 1 of the seeded database belongs to the first user
InitOwner ==
  /\ NoRequest
  /\ NoCall
  /\ ClockAtStart
  /\ pool \in dbConnectorExports
  /\ Seeded(1)
  /\ Idle
  /\ user_id = [o \in OrderIds |-> IF o = 1 THEN "sub-1" ELSE "none"]
  /\ pcall = NoPCall
  /\ lastChange = NoChange
  /\ rateLimitStore = [i \in Instances |-> [k \in Keys |-> NoEntry]]
  /\ hits = [i \in Instances |-> [k \in Keys |-> << >>]]
  /\ rl = NoLimitCall
  /\ sns = NoPublish

NextOwner ==
  \/ ProtectedReceive
  \/ protected_createOrder
  \/ originalHandler_createOrder
  \/ protected_updateOrder
  \/ protected_updateOrder_getOrders
  \/ originalHandler_updateOrder
  \/ protected_addOrderItem
  \/ protected_removeOrderItem
  \/ ProtectedRespond

\* requests of verified callers to the order routes of protectedHandler.js
OwnerSpec == InitOwner /\ [][NextOwner]_vars

\* ----------------------------------------- withMiddleware: rate limiting
\* event.requestContext...sourceIp, or none
SourceIps == Ips \cup {absent}
\* const clientIp = ... || 'unknown'
clientIp(src) == IF src = absent THEN "unknown" ELSE src
\* rateLimitStore.size > 1000
cleanupSize == 1000

\* the Map after the periodic clean-up of expired entries
Cleaned(store, t) ==
  IF Cardinality({k \in Keys : store[k].present}) > cleanupSize
  THEN [k \in Keys |-> IF store[k].present /\ t - store[k].windowStart > windowMs
                       THEN NoEntry ELSE store[k]]
  ELSE store
\* clientData after the window reset and count++
Counted(store, ip, t) ==
  LET clientData == IF Cleaned(store, t)[ip].present THEN Cleaned(store, t)[ip]
                    ELSE [present |-> TRUE, count |-> 0, windowStart |-> t]
      current == IF t - clientData.windowStart > windowMs
                 THEN [clientData EXCEPT !.count = 0, !.windowStart = t]
                 ELSE clientData
  IN  [current EXCEPT !.count = @ + 1]
Exceeds_never(count) == FALSE
\* return clientData.count > maxRequests
Exceeds(count) == count > maxRequests
\* isRateLimited(ip) at instant t: what it returns
isRateLimited(store, ip, t) == Exceeds(Counted(store, ip, t).count)

\* a request reaches withMiddleware(handler) in process instance i: the
\* rate-limit check, then 429 or the call of the handler
withMiddleware ==
  /\ rl.at = "idle"
  /\ opsStarted < MaxCalls
  /\ opsStarted' = opsStarted + 1
  /\ \E i \in Instances, src \in SourceIps :
       LET ip == clientIp(src)
           limited == isRateLimited(rateLimitStore[i], ip, now)
       IN  /\ rateLimitStore' = [rateLimitStore EXCEPT ![i] =
                [Cleaned(@, now) EXCEPT ![ip] = Counted(rateLimitStore[i], ip, now)]]
           /\ IF limited
              THEN /\ rl' = [at |-> "done", instance |-> i, ip |-> ip, time |-> now,
                               statusCode |-> 429]
                   /\ UNCHANGED hits
              ELSE /\ rl' = [at |-> "handler", instance |-> i, ip |-> ip, time |-> now,
                               statusCode |-> 0]
                   /\ hits' = [hits EXCEPT ![i][ip] = Append(@, now)]
  /\ UNCHANGED <<pool, orders, items, nextOrderId, nextItemId, tx, conn, op, pc,
                 arg, loc, err, resp, clockVars, callVars, authVars, user_id,
                 pcall, lastChange, sns>>

\* const result = await handler(event, context): it returns or throws
withMiddleware_handler ==
  /\ rl.at = "handler"
  /\ \E code \in {200, 500} : rl' = [rl EXCEPT !.at = "done", !.statusCode = code]
  /\ UNCHANGED <<orderVars, clockVars, callVars, authVars, user_id, pcall,
                 lastChange, rateLimitStore, hits, sns>>

\* the response is sent
LimitRespond ==
  /\ rl.at = "done"
  /\ rl' = NoLimitCall
  /\ UNCHANGED <<orderVars, clockVars, callVars, authVars, user_id, pcall,
                 lastChange, rateLimitStore, hits, sns>>

\* (the clock is read once per request, so it is enough that time passes
\* between requests)
NextLimit ==
  \/ withMiddleware
  \/ withMiddleware_handler
  \/ LimitRespond
  \/ rl.at = "idle" /\ Tick

\* requests from several addresses to the process instances of a function
\* wrapped into withMiddleware, while time passes
LimitSpec == InitCreate /\ [][NextLimit]_vars

\* ------------------------------------------------------ publishOrderCreated
\* orderData.orderStatus as the caller passed it
PublishedStatuses == {"undefined", "pending", "confirmed"}
\* orderStatus: orderData.orderStatus || 'In Progress'
MessageStatus(st) == IF st = "undefined" THEN "In Progress" ELSE st
SnsFrame ==
  UNCHANGED <<orderVars, clockVars, callVars, authVars, user_id, pcall,
              lastChange, rateLimitStore, hits, rl>>

\* publishOrderCreated(orderData) is called; ORDER_CREATED_TOPIC_ARN is set or not
PublishCall ==
  /\ sns.at = "idle"
  /\ \E arn \in BOOLEAN, o \in OrderIds, t \in 0..ExplicitTotal, st \in PublishedStatuses :
       sns' = [NoPublish EXCEPT !.at = "called", !.topicArn = arn, !.orderId = o,
                                !.totalPrice = t, !.orderStatus = st]
  /\ SnsFrame
\* up to the await of sns.publish: without the topic ARN it throws
publishOrderCreated ==
  /\ sns.at = "called"
  /\ IF ~sns.topicArn
     THEN sns' = [sns EXCEPT !.at = "settled", !.result = "rejected"]
     ELSE sns' = [sns EXCEPT !.at = "publish", !.message = MessageStatus(sns.orderStatus)]
  /\ SnsFrame
\* await sns.publish(...).promise(): it resolves, or its error is caught and logged
publishOrderCreated_publish ==
  /\ sns.at = "publish"
  /\ \E r \in {"result", "undefined"} : sns' = [sns EXCEPT !.at = "settled", !.result = r]
  /\ SnsFrame
\* the promise is settled; the next call
PublishSettled ==
  /\ sns.at = "settled"
  /\ sns' = NoPublish
  /\ SnsFrame

NextPublish == PublishCall \/ publishOrderCreated \/ publishOrderCreated_publish \/ PublishSettled
\* calls of publishOrderCreated in deployments with and without the topic ARN
PublishSpec == InitCreate /\ [][NextPublish]_vars

\* ------------------------- the add-item handler that checks the order status
\* editableStatuses.includes(order.order_status?.toLowerCase()), on the order
\* getOrderById returned
StatusEditable(p) ==
  op[p] = "addOrderItem" => loc[p].order.order_status \in EditableStatuses
\* return createResponse(400, { error: "Order cannot be modified", ... })
addOrderItem_notEditable(p) ==
  /\ op[p] = "addOrderItem" /\ pc[p] = "getConnection"
  /\ ~StatusEditable(p)
  /\ resp' = [resp EXCEPT ![p] = 400]
  /\ Ctl(p, "done", loc[p], "none")
  /\ SameData /\ UNCHANGED <<pool, op, arg, opsStarted, conn>>

NextRace ==
  /\ UNCHANGED <<authVars, clockVars, callVars, edgeVars>>
  /\ \E p \in Procs :
       \/ addOrderItem(p)
       \/ updateOrder(p)
       \/ getOrderById_order(p)
       \/ getOrderById_items(p)
       \/ Respond400(p)
       \/ addOrderItem_notEditable(p)
       \/ StatusEditable(p) /\ GetConnection(p)
       \/ BeginTransaction(p)
       \/ addOrderItem_insertItem(p)
       \/ addOrderItem_updateTotal(p)
       \/ updateOrder_query(p)
       \/ Commit(p)
       \/ Rollback(p)
       \/ Release(p)
       \/ Respond(p)
       \/ Return(p)

\* add-item requests through the status-checking handler, concurrent with
\* updateOrder requests, on a seeded database
RaceSpec == Init /\ [][NextRace]_vars

\* ===================================================================== claims
\* the committed item rows attached to order o
ItemsOf(o) == {i \in ItemIds : items[i].exists /\ items[i].order_id = o}
\* sum of quantity x unit_price over the committed item rows in S
RECURSIVE SumLines(_)
SumLines(S) ==
  IF S = {} THEN 0
  ELSE LET i == CHOOSE j \in S : TRUE
       IN  items[i].quantity * items[i].unit_price + SumLines(S \ {i})
\* sum of quantity x unit_price over the items passed to createOrder
RECURSIVE SumPassed(_)
SumPassed(its) ==
  IF its = << >> THEN 0
  ELSE Head(its).quantity * Head(its).unit_price + SumPassed(Tail(its))

\* C1: starting from an order whose total equals the sum of its items, after
\* any sequence of addOrderItem / removeOrderItem calls (committed or failed)
\* every order's total_price equals the sum of quantity x unit_price over the
\* item rows currently attached to it.
C1_TotalIsSumOfItems ==
  \A o \in OrderIds :
    orders[o].exists => orders[o].total_price = SumLines(ItemsOf(o))

\* an item was added and the seeded item removed; the total is the new item's
C1_Witness ==
  /\ AllIdle
  /\ orders[1].exists
  /\ ~items[1].exists
  /\ ItemsOf(1) = {2}
  /\ orders[1].total_price = MaxQuantity * MaxPrice

\* C2: after createOrder succeeds with no explicit total, the persisted total
\* is the sum of quantity x unit_price over the items passed, and the call's
\* one order row and one item row per passed item exist (and no other item
\* row is attached to the order).
C2_CreateOrderTotalAndRows ==
  \A p \in Procs :
    (op[p] = "createOrder" /\ loc[p].committed /\ arg[p].total_price = undefined) =>
      LET o == loc[p].orderId
      IN  /\ o \in OrderIds /\ orders[o].exists
          /\ orders[o].total_price = SumPassed(arg[p].items)
          /\ Cardinality(loc[p].itemIds) = Len(arg[p].items)
          /\ ItemsOf(o) = loc[p].itemIds
          /\ \E f \in [1..Len(arg[p].items) -> loc[p].itemIds] :
               /\ \A j, k \in 1..Len(arg[p].items) : j # k => f[j] # f[k]
               /\ \A j \in 1..Len(arg[p].items) :
                    /\ items[f[j]].quantity = arg[p].items[j].quantity
                    /\ items[f[j]].unit_price = arg[p].items[j].unit_price
                    /\ items[f[j]].product_id = arg[p].items[j].product_id

\* a createOrder of two items with different line totals has committed
C2_Witness ==
  \E p \in Procs :
    /\ op[p] = "createOrder" /\ pc[p] = "done" /\ err[p] = "none"
    /\ arg[p].total_price = undefined
    /\ Len(arg[p].items) = 2
    /\ ItemTotal(arg[p].items[1]) # ItemTotal(arg[p].items[2])
    /\ orders[loc[p].orderId].total_price = MaxPrice + MaxQuantity * MaxPrice

\* C3: while a createOrder has not committed, and after it failed at any step,
\* no order row and no item row of that call is in the committed tables, its
\* transaction is closed once the call is over, and a reader that was
\* answered 200 for an order saw the order together with all of its items.
C3_CreateOrderAtomic ==
  /\ \A p \in Procs :
       (op[p] = "createOrder" /\ ~loc[p].committed) =>
         /\ loc[p].orderId # 0 => ~orders[loc[p].orderId].exists
         /\ \A i \in loc[p].itemIds : ~items[i].exists
         /\ pc[p] \in {"release", "respond", "done"} => tx[p] = NoTx
  /\ \A q \in Procs :
       (op[q] = "getOrders" /\ pc[q] = "done" /\ resp[q] = 200) =>
         /\ loc[q].order = orders[arg[q].id]
         /\ loc[q].seen = ItemsOf(arg[q].id)

\* createOrder failed on its second item (invalid product) after the order
\* row and the first item row were written
C3_Witness ==
  \E p \in Procs :
    /\ op[p] = "createOrder" /\ pc[p] = "done"
    /\ err[p] = "ER_NO_REFERENCED_ROW_2"
    /\ loc[p].orderId # 0 /\ loc[p].itemIds # {}

\* a step taken by process p
StepBy(p) == pc'[p] # pc[p] \/ op'[p] # op[p]

\* C4: deleteOrder(id) is all-or-nothing. Once it has committed, neither the
\* order row nor any item row referencing id exists, no item row ever
\* references a missing order (also with a concurrent addOrderItem for id),
\* and a call that ended has no transaction left open; every step of
\* deleteOrder other than its successful commit leaves the committed orders
\* and order_items rows unchanged.
C4_DeleteOrderAtomic ==
  /\ [](/\ \A p \in Procs :
            /\ (op[p] = "deleteOrder" /\ loc[p].committed) =>
                 ~orders[arg[p].id].exists /\ ItemsOf(arg[p].id) = {}
            /\ (op[p] = "deleteOrder" /\ pc[p] \in {"release", "respond", "done"}) =>
                 tx[p] = NoTx
         /\ \A i \in ItemIds : items[i].exists => orders[items[i].order_id].exists)
  /\ [][\A p \in Procs :
          (op[p] = "deleteOrder" /\ StepBy(p) /\ ~loc'[p].committed) =>
            UNCHANGED <<orders, items>>]_vars

\* deleteOrder(1) has committed while an addOrderItem for order 1 is in flight
C4_Witness ==
  \E p, q \in Procs :
    /\ p # q
    /\ op[p] = "deleteOrder" /\ loc[p].committed /\ arg[p].id = 1
    /\ op[q] = "addOrderItem" /\ arg[q].id = 1
    /\ pc[q] \in {"getConnection", "beginTransaction", "insertItem"}
    /\ ~orders[1].exists

\* C8 (as claimed): an addOrderItem request on an order whose status is not
\* pending or confirmed is refused: it inserts no item row, commits nothing
\* (so the order's total_price stays as it was) and is not answered 201.
C8_AddToNonEditableRefused ==
  \A p \in Procs :
    (op[p] = "addOrderItem" /\ loc[p].order.exists
       /\ loc[p].order.order_status \notin EditableStatuses) =>
      /\ loc[p].itemIds = {}
      /\ ~loc[p].committed
      /\ pc[p] = "done" => resp[p] # 201

\* C9 (as claimed): removeOrderItem for an item id that never existed, on a
\* store that answers every statement, fails with the not-found error.
C9_RemoveMissingIsNotFound ==
  \A p \in Procs :
    (op[p] = "removeOrderItem" /\ pc[p] = "done"
       /\ arg[p].id >= nextItemId /\ ~loc[p].fault) =>
      err[p] = "Item not found"

\* C10 (as claimed): DELETE /orders/items/{itemId} for an item that does not
\* exist (the service reported "Item not found") is answered with status 404.
C10_RemoveMissingIs404 ==
  \A p \in Procs :
    (op[p] = "removeOrderItem" /\ pc[p] = "done" /\ err[p] = "Item not found") =>
      resp[p] = 404


\* C11 (as claimed): the total createOrder returns is the explicit total when
\* the caller supplied one, and otherwise the sum of quantity x unit_price
\* over the items passed (0 for an empty item list).
C11_ReturnsResolvedTotal ==
  \A p \in Procs :
    (op[p] = "createOrder" /\ loc[p].committed) =>
      loc[p].ret = IF arg[p].total_price # undefined THEN arg[p].total_price
                   ELSE SumPassed(arg[p].items)

\* the orders created in [from, to], an omitted from being the floor
\* (instant 0) and an omitted to the instant t of the call
CreatedInRange(from, to, t) ==
  LET lo == IF from = undefined THEN 0 ELSE Midnight(from)
      hi == IF to = undefined THEN t ELSE Midnight(to)
  IN  {o \in OrderIds : orders[o].exists /\ lo <= created_at[o] /\ created_at[o] <= hi}

\* C12 (as claimed): a getTotalPrice(range) that returns, returns the sum of
\* total_price over exactly the orders created in [from, to], with from
\* defaulting to the floor and to defaulting to the moment of the call, and 0
\* when no order matches.
C12_SumsOrdersInRange ==
  [][\A p \in Procs :
       (op[p] = "getTotalPrice" /\ pc[p] = "sumQuery" /\ pc'[p] = "release"
          /\ err'[p] = "none") =>
         loc'[p].ret = SumTotals(CreatedInRange(arg[p].from, arg[p].to, now))]_vars

\* a request on an admin route that went through authentication was answered
AdminRouteAnswered ==
  /\ apc = "responded"
  /\ options.requireAdmin
  /\ request.method # "OPTIONS"
  /\ ~SkipsAuth(options, env)
\* the error of the authentication whose outcome withAuth reports
DecidingError == IF UsesExternal(options, env) THEN externalAuthError ELSE error
\* the Cognito configuration of the function that ran that authentication
DecidingConfig == IF UsesExternal(options, env) THEN env.extCognito ELSE env.cognito

\* C5 as stated: on an admin route a request without Authorization header is
\* answered 401 and never 403, a verified non-admin is answered 403, a 403
\* comes only after a successful authentication, and the handler is not
\* invoked in either case.
C5_AdminRouteAsStated ==
  AdminRouteAnswered =>
    /\ request.header = "none" => response = 401 /\ handlerCalls = 0
    /\ verified /\ ~user.isAdmin => response = 403 /\ handlerCalls = 0
    /\ response = 403 => verified

\* C5 (amended): on an admin route, for a request that is neither a CORS
\* preflight nor a dev skip-auth bypass: without Authorization header the
\* answer is never 403 and the handler is not invoked; it is 401 when the
\* deciding authentication reports the missing header, and 500 exactly when
\* that verifier lacks its Cognito configuration or the external
\* authentication function could not be invoked. A verified non-admin is
\* answered 403 without the handler being invoked, and a 403 is produced only
\* after a successful authentication.
C5_AdminRoute ==
  AdminRouteAnswered =>
    /\ request.header = "none" =>
         /\ handlerCalls = 0
         /\ ~verified
         /\ response \in {401, 500}
         /\ response = 401 <=> DecidingError = NoAuthorizationHeader
         /\ response = 500 <=>
              \/ ~DecidingConfig /\ DecidingError = CognitoConfigurationMissing
              \/ UsesExternal(options, env) /\ DecidingError = ExternalFunctionError
         /\ ~UsesExternal(options, env) /\ env.cognito => response = 401
    /\ verified /\ ~user.isAdmin => response = 403 /\ handlerCalls = 0
    /\ response = 403 => verified /\ user.present /\ ~user.isAdmin /\ handlerCalls = 0
C5_Witness ==
  /\ AdminRouteAnswered
  /\ request.header = "none"
  /\ response = 401
  /\ handlerCalls = 0

\* C6: the handler is invoked without a verified identity only on a skipAuth
\* route in stage dev; outside dev every handler invocation follows a
\* successful verification of the same request's token and receives the
\* identity derived from it; a CORS preflight invokes neither verifier nor
\* handler.
C6_HandlerOnlyAfterVerification ==
  /\ handlerCalls > 0 /\ ~verified => options.skipAuth /\ env.STAGE = "dev"
  /\ handlerCalls > 0 /\ env.STAGE # "dev" =>
       /\ verified
       /\ verifyCalls > 0
       /\ request.header = "bearer"
       /\ eventUser = UserOf(request.token)
  /\ request.method = "OPTIONS" =>
       /\ verifyCalls = 0
       /\ handlerCalls = 0
       /\ ~verified
       /\ vstate = "Unauthenticated"
C6_Witness ==
  /\ apc = "responded"
  /\ env.STAGE = "prod"
  /\ options.skipAuth
  /\ handlerCalls = 1
  /\ verified
  /\ eventUser = UserOf(request.token)

\* every check the verification of token t has to pass
AllChecksPass(t) ==
  /\ t.kid
  /\ t.keyOk
  /\ t.sig
  /\ t.alg = "RS256"
  /\ t.iss
  /\ t.aud
  /\ ~t.expired
  /\ t.token_use \in {"id", "access"}

\* C7: verifyToken returns the claims only if every check passes (kid, key,
\* signature under RS256, issuer, audience, expiry, token_use id or access);
\* a token failing any check is rejected and yields no identity.
C7_VerifyAllOrNothing ==
  request.header = "bearer" =>
    /\ verified => AllChecksPass(request.token)
    /\ user.present => AllChecksPass(request.token) /\ user = UserOf(request.token)
    /\ ~AllChecksPass(request.token) =>
         /\ ~verified
         /\ ~user.present
         /\ ~eventUser.present
         /\ verifyCalls > 0 /\ apc \in {"catch", "responded"} =>
              vstate = "Rejected" /\ handlerCalls = 0
C7_Witness ==
  /\ apc = "responded"
  /\ request.header = "bearer"
  /\ request.token.expired
  /\ Defects(request.token) = 1
  /\ verifyCalls > 0
  /\ vstate = "Rejected"
  /\ response = 401

\* a withAuth request that authentication refused was answered, and the
\* authentication that decides ran (the external function could be invoked)
AuthenticationFailed ==
  /\ apc = "responded"
  /\ mode # "optional"
  /\ request.method # "OPTIONS"
  /\ ~SkipsAuth(options, env)
  /\ ~verified
  /\ DecidingError # ExternalFunctionError

C14_NeverRejects ==
  /\ apc # "rejected"
  /\ apc = "responded" => response \in {200, 401, 403, 404, 500}

\* C15 (as claimed): withOptionalAuth invokes the wrapped handler exactly
\* once per request, with the derived identity attached exactly when the
\* request carried a token that verified, and the request is never refused
\* because of its token.
C15_OptionalInvokesOnce ==
  mode = "optional" =>
    /\ handlerCalls <= 1
    /\ apc \in {"responded", "rejected"} =>
         /\ handlerCalls = 1
         /\ eventUser.present <=> verified
         /\ eventUser.present => eventUser = UserOf(request.token)
         /\ response \notin {401, 403}

\* C16 (as claimed): the identity authenticate derives is userId = sub,
\* username = the username claim or, when that is absent, sub, email = email,
\* groups = the groups claim or the empty list, isAdmin = groups contains
\* exactly "admin".
C16_IdentityAsStated ==
  identity # NoIdentity =>
    /\ identity.userId = payload.sub
    /\ identity.username = IF payload.username = absent THEN payload.sub
                           ELSE payload.username
    /\ identity.email = payload.email
    /\ identity.groups = IF payload.has_groups THEN payload.cognito_groups ELSE << >>
    /\ identity.isAdmin <=> \E i \in 1..Len(identity.groups) : identity.groups[i] = "admin"

\* C16 (amended): as claimed, except that username is the username claim or,
\* when that is absent or empty, the cognito:username claim (and absent when
\* that is absent too); sub is never used as the username.
C16_Identity ==
  identity # NoIdentity =>
    /\ identity.userId = payload.sub
    /\ identity.username = IF payload.username \notin {absent, ""} THEN payload.username
                           ELSE payload.cognito_username
    /\ identity.email = payload.email
    /\ identity.groups = IF payload.has_groups THEN payload.cognito_groups ELSE << >>
    /\ identity.isAdmin <=> \E i \in 1..Len(identity.groups) : identity.groups[i] = "admin"
\* an id token (no username claim) of a member of "Admin" and "administrators"
C16_Witness ==
  /\ identity # NoIdentity
  /\ payload.username = absent
  /\ identity.username = "bob"
  /\ identity.groups = <<"Admin", "administrators">>
  /\ ~identity.isAdmin

\* "Bearer <token>": two pieces around a single space, the first exactly
\* "Bearer", the second a non-empty token
WellFormed(h) ==
  /\ h.present
  /\ Len(h.value) >= 3
  /\ h.value[1] = "Bearer" /\ h.value[2] = " "
  /\ \A i \in 3..Len(h.value) : h.value[i] # " "
\* C17: at every entry point a token is accepted only from a header of the
\* exact form "Bearer <token>"; an absent header fails as missing, every other
\* shape (other scheme or case, extra spaces or segments, empty token) fails
\* as malformed.
C17_BearerOnly ==
  outcome # NoOutcome =>
    /\ outcome.kind = "token" <=> WellFormed(authHeader)
    /\ outcome.kind = "missing" <=> ~authHeader.present
    /\ outcome.kind = "token" => outcome.token = Tail(Tail(authHeader.value))

\* one move of the verification state of the request being served
VerificationMove(a, b) ==
  \/ a = b
  \/ <<a, b>> \in {<<"Unauthenticated", "TokenExtracted">>,
                   <<"TokenExtracted", "KeyResolved">>,
                   <<"KeyResolved", "Verified">>}
  \/ b = "Rejected"
\* C18: while a request is served its verification state moves only
\* Unauthenticated -> TokenExtracted -> KeyResolved -> Verified (the external
\* authentication function makes these moves within its one invocation) or to
\* Rejected, and Rejected is terminal: after a rejection the state stays
\* Rejected, no identity is attached and the handler is not invoked.
C18_RejectedIsTerminal ==
  [][apc' # "idle" =>
       /\ \/ VerificationMove(vstate, vstate')
          \/ apc = "authenticateExternal" /\ vstate = "Unauthenticated"
             /\ vstate' = "Verified"
       /\ vstate = "Rejected" =>
            /\ vstate' = "Rejected"
            /\ user' = NoUser /\ eventUser' = NoUser
            /\ handlerCalls' = handlerCalls]_vars

\* C19: addOrderItem calls that overlap on one order lose no update. The
\* commit of each call raises the order's committed total_price by exactly
\* that call's line total and attaches that call's item row, whatever the
\* other calls did in between; so when two calls on the same order, the only
\* calls made, have both committed, the total is the initial total plus both
\* line totals and both item rows are attached.
C19_NoLostUpdate ==
  /\ [](\A p, q \in Procs :
          (/\ p # q /\ opsStarted = 2
           /\ op[p] = "addOrderItem" /\ op[q] = "addOrderItem"
           /\ arg[p].id = arg[q].id
           /\ loc[p].committed /\ loc[q].committed) =>
            /\ orders[arg[p].id].total_price =
                 ItemTotal(SeedItem) + ItemTotal(arg[p].item) + ItemTotal(arg[q].item)
            /\ loc[p].itemIds \cup loc[q].itemIds \subseteq ItemsOf(arg[p].id)
            /\ Cardinality(loc[p].itemIds \cup loc[q].itemIds) = 2)
  /\ [][\A p \in Procs :
          (op[p] = "addOrderItem" /\ ~loc[p].committed /\ loc'[p].committed) =>
            /\ orders'[arg[p].id].total_price =
                 orders[arg[p].id].total_price + ItemTotal(arg[p].item)
            /\ items' = [i \in ItemIds |->
                           IF i \in loc[p].itemIds
                           THEN NewItemRow(arg[p].id, arg[p].item, ItemTotal(arg[p].item))
                           ELSE items[i]]
            /\ loc[p].itemIds # {}]_vars

\* two addOrderItem calls on order 1 that both read the order before either
\* committed have both committed
C19_Witness ==
  \E p, q \in Procs :
    /\ p # q
    /\ op[p] = "addOrderItem" /\ op[q] = "addOrderItem"
    /\ arg[p].id = 1 /\ arg[q].id = 1
    /\ loc[p].committed /\ loc[q].committed
    /\ loc[p].order.total_price = ItemTotal(SeedItem)
    /\ loc[q].order.total_price = ItemTotal(SeedItem)
    /\ Cardinality(ItemsOf(1)) = 3

PoolUsers == {"createOrder", "deleteOrder", "addOrderItem", "removeOrderItem",
              "getTotalPrice"}
\* C20: every connection that createOrder, deleteOrder, addOrderItem,
\* removeOrderItem or getTotalPrice checks out of the pool is released exactly
\* once on every path: once the service function is over (commit, failed
\* statement, failed rollback) its connection is not checked out any more, a
\* release always gives back a connection that is checked out, a released
\* connection is not used or released again, and when no operation is in
\* progress no connection is checked out.
C20_ConnectionReleased ==
  /\ [](/\ \A p \in Procs :
            /\ (op[p] \in PoolUsers /\ pc[p] \in {"respond", "done"}) => conn[p] # "held"
            /\ op[p] = "idle" => conn[p] = "none"
         /\ AllIdle => \A q \in Procs : conn[q] # "held")
  /\ [][\A p \in Procs :
          /\ (conn[p] # "released" /\ conn'[p] = "released") =>
               conn[p] = "held" /\ pc[p] = "release"
          /\ conn[p] = "released" =>
               \/ conn'[p] = "released" /\ pc'[p] \in {"respond", "done"}
               \/ conn'[p] = "none" /\ op'[p] = "idle"
          /\ (conn[p] = "held" /\ conn'[p] # "held") => conn'[p] = "released"]_vars

\* a call whose statement failed and whose rollback failed too is over, its
\* connection released, after an earlier call committed
C20_Witness ==
  \E p \in Procs :
    /\ op[p] \in PoolUsers
    /\ err[p] = "RollbackError"
    /\ pc[p] = "done"
    /\ conn[p] = "released"
    /\ opsStarted = 2

Mutators == {"createOrder", "deleteOrder", "addOrderItem", "removeOrderItem"}
\* C21: when a statement of createOrder, deleteOrder, addOrderItem or
\* removeOrderItem failed with error E, the error the operation carries from
\* its catch block on (through the rollback and the release, up to the
\* rejection) stays E, whatever the rollback does, and the call is not
\* answered as a success.
C21_ErrorPreserved ==
  [][\A p \in Procs :
       (op[p] \in Mutators /\ err[p] # "none"
          /\ pc[p] \in {"rollback", "release", "respond"}) =>
         /\ err'[p] = err[p]
         /\ pc'[p] = "done" => resp'[p] = handleError(err[p])]_vars

\* C22: after any sequence of calls with valid inputs (quantity >= 1, unit
\* price >= 0, explicit or updated totals >= 0) the total_price of every
\* order is >= 0.
C22_TotalNonNegative ==
  \A o \in OrderIds : orders[o].exists => orders[o].total_price >= 0

\* C23: through the protected handlers a caller who is not admin changes an
\* order (updateOrder, addOrderItem, removeOrderItem) only if he owns it, also
\* when the ownership lookup fails.
C23_OnlyOwnerModifies ==
  (/\ lastChange.route \in {"updateOrder", "addOrderItem", "removeOrderItem"}
   /\ ~lastChange.by.isAdmin) =>
    lastChange.ownerBefore = lastChange.by.userId

\* C24: the order a caller who is not admin creates through the protected
\* createOrder is owned by the caller, whatever body.user_id he sent (so two
\* requests of his that differ in body.user_id create orders of the same owner).
C24_OwnerIsCaller ==
  (/\ pcall.route = "createOrder" /\ pcall.statusCode = 201
   /\ ~pcall.caller.isAdmin) =>
    /\ lastChange.route = "createOrder"
    /\ user_id[lastChange.order] = pcall.caller.userId
\* a non-admin caller who sent another user's id has created an order
C24_Witness ==
  /\ pcall.route = "createOrder" /\ pcall.statusCode = 201
  /\ ~pcall.caller.isAdmin
  /\ pcall.sent \in Subjects /\ pcall.sent # pcall.caller.userId
  /\ user_id[lastChange.order] = pcall.caller.userId

\* how many of the instants in seq lie in the window that starts at t0
HitsInWindow(seq, t0) ==
  Cardinality({j \in 1..Len(seq) : t0 <= seq[j] /\ seq[j] <= t0 + windowMs})
\* the 429 being answered is due to the requests of that address alone, inside
\* its window, and the handler was not invoked for it
LimitedOnOwnCount ==
  rl.statusCode = 429 =>
    LET e == rateLimitStore[rl.instance][rl.ip]
    IN  /\ HitsInWindow(hits[rl.instance][rl.ip], e.windowStart) = maxRequests
        /\ e.windowStart <= rl.time /\ rl.time - e.windowStart <= windowMs
        /\ e.count > maxRequests

C26_PublishNeverRejects ==
  sns.at = "settled" => sns.result # "rejected"

\* C27: when the caller supplies an explicit total to createOrder (any value
\* >= 0, 0 included), the committed order's total_price is that value and not
\* the sum of the items; the sum is written only when no total was supplied.
C27_ExplicitTotalKept ==
  \A p \in Procs :
    (op[p] = "createOrder" /\ loc[p].committed /\ pc[p] = "release") =>
      orders[loc[p].orderId].total_price =
        IF arg[p].total_price # undefined THEN arg[p].total_price
        ELSE SumPassed(arg[p].items)

\* C28: whenever createOrder, deleteOrder, addOrderItem, removeOrderItem or
\* getTotalPrice runs, the pool handle orderService imported is an initialized
\* pool: no call fails at pool.getConnection() before a connection is checked
\* out while the store is healthy.
C28_PoolInitialized ==
  \A p \in Procs :
    op[p] \in PoolUsers =>
      /\ pool = "pool"
      /\ (loc[p].called /\ ~loc[p].fault) => (err[p] # "TypeError" /\ conn[p] # "none")

\* C29: when two removeOrderItem calls for the same existing item, the only
\* calls made, are both over without a storage failure, exactly one of them
\* committed, the other failed with "Item not found", and the order's
\* total_price went down by the item's line total exactly once.
C29_RemoveOnce ==
  \A p, q \in Procs :
    (/\ p # q /\ opsStarted = 2
     /\ op[p] = "removeOrderItem" /\ op[q] = "removeOrderItem"
     /\ arg[p].id = 1 /\ arg[q].id = 1
     /\ pc[p] \in {"respond", "done"} /\ pc[q] \in {"respond", "done"}
     /\ ~loc[p].fault /\ ~loc[q].fault /\ pool = "pool") =>
      /\ loc[p].committed # loc[q].committed
      /\ \E r \in {p, q} : ~loc[r].committed /\ err[r] = "Item not found"
      /\ orders[1].total_price = 0

\* C30: with the status check in front of addOrderItem, no item is committed
\* to an order after an updateOrder moved it to a non-editable status: each
\* addOrderItem that commits does so while the order's committed status is
\* pending or confirmed.
C30_NoItemAfterStatusChange ==
  [][\A p \in Procs :
       (op[p] = "addOrderItem" /\ ~loc[p].committed /\ loc'[p].committed) =>
         orders[arg[p].id].order_status \in EditableStatuses]_vars
====
